---- MODULE Spec2Model ----
(***************************************************************************)
(* Model of the cinematic renderer (src/cinematic-renderer/app).           *)
(*                                                                         *)
(* Times are integers in milliseconds, audio amplitudes are integers in    *)
(* thousandths of full scale, and ratios are pairs <<num, den>>; the       *)
(* floating point rounding of the Python code is not modelled.             *)
(*                                                                         *)
(* The module holds one specification per component:                       *)
(*   SpecCompose   TransitionService.compose (timeline placement)          *)
(*   Spec          RenderPipeline.run behind the render endpoint           *)
(*   SpecAudio     AudioMixerService / AudioEngine                         *)
(*   SpecDet       two independent renders of one (seed, request)          *)
(*   SpecGrain     film grain of the frames of one clip                    *)
(*   SpecBeat      one call of BeatEngine.align_durations_to_beats         *)
(*   SpecWork      concurrent renders on one temp_root                     *)
(*   SpecEndpoint  the request classes of the endpoints handed to run      *)
(* Spec follows run for a request object that has every attribute run and  *)
(* the validator read; SpecEndpoint follows the attribute reads of run for *)
(* the two request classes the endpoints construct.                        *)
(* A specification leaves the variables of the other components at their   *)
(* idle values.                                                            *)
(***************************************************************************)
EXTENDS Integers, Sequences, FiniteSets, TLC

VARIABLES
    \* TransitionService.compose
    scenes,          \* list[SceneConfig]: duration_seconds and transition of each scene
    clips,           \* the clips handed to compose: their durations
    cIdx,            \* loop index of compose (0-based, as enumerate)
    current_start,   \* running start time
    started,         \* placed clips: start, duration, crossfade-in length
    pulls,           \* amount current_start was pulled back after each clip
    total_duration,  \* result of compose
    cpc,             \* position in compose
    \* RenderPipeline.run behind render_video
    settings,        \* Settings loaded from the environment
    fs,              \* kind of each media path on disk: file, dir or missing
    payload,         \* body of the render call
    req,             \* the constructed RenderRequest
    rpc,             \* position in run
    error,           \* the exception that ended run, if any
    workdir,         \* name returned by create_workdir
    tmpDirs,         \* directories existing under temp_root
    beat_times,      \* result of detect_beats
    aligned_durations,
    built,           \* scene clips built so far: their durations
    video_duration,  \* duration of the concatenated video
    mixed,           \* audio mix produced
    styled,          \* cinematic style applied
    export_started,  \* export has begun writing
    outputFile,      \* file at the final output path: absent, partial or complete
    response,        \* RenderResponse returned by run
    \* AudioMixerService.mix / AudioEngine.mix_audio
    aContract,       \* request model in use: nested (AudioMixerService) or flat (AudioEngine)
    aCfg,            \* narration, music and mix settings of the request
    aT,              \* timeline_seconds
    aNarr,           \* samples of the narration file over the timeline
    aLoop,           \* samples of one period of the music file
    aAccepted,       \* outcome of the request model's validators
    apc,             \* position in mix
    aError,          \* exception raised by mix, if any
    aEnvelope,       \* ducking envelope, when one was built
    aBuffer,         \* samples of the composite clip before normalization
    aClip,           \* the clip returned: samples and the volumex gains applied
    aPeaks,          \* peak measured by each _normalize pass
    \* two independent renders of one (seed, request)
    dReq,            \* seed, fps and camera of the request
    dHash,           \* sha256 prefix of "{seed}:{namespace}", per namespace
    dpc,             \* position of each render
    dEnv,            \* what differs between the renders: workdir suffix, clock
    dCaption,        \* caption of each scene in the request of each render
    dSampled,        \* timestamps each render has sampled, in sampling order
    dOut,            \* values each render has derived
    \* grain of the frames of one styled clip
    gReq,            \* seed, fps, frame shape and film grain settings
    gDraws,          \* values drawn so far from the generator of StyleEngine
    gSamples,        \* frames sampled so far, with the noise each one got
    \* one call of align_durations_to_beats
    bDurations,      \* durations argument (ms)
    bBeatTimes,      \* beat_times argument (ms)
    bAligned,        \* the returned list
    bpc,             \* "call" before the call, "returned" after it
    \* concurrent calls of RenderPipeline.run on one temp_root
    wRequestId,      \* request_id of each call, a sequence of characters
    wpc,             \* position of each call
    wWorkdir,        \* workdir of each call
    wTemp,           \* directories under temp_root, with the call that made each
    \* render_video handing its payload to RenderPipeline.run
    eEndpoint,       \* module of the endpoint, which fixes the class of the payload
    ePayload,        \* request_id, seed and number of scenes of the payload
    ePos,            \* index of the next attribute read of run
    eOutcome,        \* "running", "returned" or "raised"
    eResponse,       \* what render_video answers: HTTP status and body
    \* one clip of CameraEffectsService.build_clip
    camCfg,          \* CameraConfig: type and intensity (thousandths)
    camDuration,     \* duration argument (ms)
    camSize,         \* width and height arguments
    camRandom,       \* the values random() returns, in order (thousandths)
    camDrawn,        \* number of values drawn from the generator
    camParams,       \* zoom_start, zoom_end, pan_x, pan_y (millionths)
    camSamples,      \* times the clip was evaluated at, with zoom and position
    campc,           \* "call" before build_clip, "built" after it
    \* concurrent renders writing under one output_root
    xRequestId,      \* request_id of each render, a sequence of characters
    xpc,             \* position of each render
    xOutput,         \* output_path of each render, once computed
    xOpen,           \* files open for writing, with the render writing each
    \* the job registry of the UI: _REQUESTS under _REQUESTS_LOCK
    jId,             \* request_id generate_video drew for each request
    jpc,             \* position of each request and of its worker thread
    jRegistry,       \* _REQUESTS: the entry of each request id
    jWritten,        \* progress values written for each request, in order
    jReader          \* a call of generation_status: its position and what it holds

composeVars == <<scenes, clips, cIdx, current_start, started, pulls, total_duration, cpc>>

pipeVars == <<settings, fs, payload, req, rpc, error, workdir, tmpDirs, beat_times,
              aligned_durations, built, video_duration, mixed, styled, export_started,
              outputFile, response>>

audioVars == <<aContract, aCfg, aT, aNarr, aLoop, aAccepted, apc, aError, aEnvelope,
               aBuffer, aClip, aPeaks>>

detVars == <<dReq, dHash, dpc, dEnv, dCaption, dSampled, dOut>>

grainVars == <<gReq, gDraws, gSamples>>

beatVars == <<bDurations, bBeatTimes, bAligned, bpc>>

workVars == <<wRequestId, wpc, wWorkdir, wTemp>>

\* the variables of the single-purpose specifications
endpointVars == <<eEndpoint, ePayload, ePos, eOutcome, eResponse>>

sideVars == <<grainVars, beatVars, workVars, endpointVars>>

cameraVars == <<camCfg, camDuration, camSize, camRandom, camDrawn, camParams, camSamples, campc>>

outputVars == <<xRequestId, xpc, xOutput, xOpen>>

jobVars == <<jId, jpc, jRegistry, jWritten, jReader>>

lateVars == <<cameraVars, outputVars, jobVars>>

vars == <<composeVars, pipeVars, audioVars, detVars, sideVars, lateVars>>

notPipeVars == <<composeVars, audioVars, detVars, sideVars, lateVars>>

notComposeVars == <<pipeVars, audioVars, detVars, sideVars, lateVars>>

notAudioVars == <<composeVars, pipeVars, detVars, sideVars, lateVars>>

----------------------------------------------------------------------------
(* Bounds *)

MaxClips == 3

MaxScenes == 2

\* the timeline of a mix lasts up to MaxTimelineSteps sample periods
MaxTimelineSteps == 4

\* _normalize is applied to its own output up to this many times
MaxNormalizePasses == 2

\* analysis rate of the ducking envelope and sampling rate of the peak
\* measurement: 2000 Hz and 22050 Hz in the source, scaled down so that the
\* signals can be enumerated; the window is still rate / 25
SampleRate == 50

MaxSamples == 3

MaxAlignedScenes == 2

MaxCalls == 2

\* evaluations of one camera clip
MaxEvaluations == 2

\* requests posted to generate_video
MaxJobs == 2

----------------------------------------------------------------------------
(* Helpers *)

Min(a, b) == IF a <= b THEN a ELSE b

Max(a, b) == IF a >= b THEN a ELSE b

RECURSIVE SeqSum(_)
SeqSum(s) == IF s = <<>> THEN 0 ELSE Head(s) + SeqSum(Tail(s))

RECURSIVE SeqMax(_)
SeqMax(s) == IF Len(s) = 1 THEN Head(s) ELSE Max(Head(s), SeqMax(Tail(s)))

\* d * 0.8 ; every duration of the model is a multiple of 5 ms, so this is exact
FourFifths(d) == (d * 4) \div 5

----------------------------------------------------------------------------
(* Idle values of the composer's variables *)

ComposeIdle ==
    /\ scenes = <<>>
    /\ clips = <<>>
    /\ cIdx = 0
    /\ current_start = 0
    /\ started = <<>>
    /\ pulls = <<>>
    /\ total_duration = 0
    /\ cpc = "idle"

AudioIdle ==
    /\ aContract = "nested"
    /\ aCfg = [narration |-> [present |-> FALSE, volume |-> 1000],
               music |-> [present |-> FALSE, volume |-> 1000],
               duck_music_under_narration |-> FALSE,
               fade_in_seconds |-> 0, fade_out_seconds |-> 0]
    /\ aT = 0
    /\ aNarr = <<>>
    /\ aLoop = <<>>
    /\ aAccepted = "pending"
    /\ apc = "idle"
    /\ aError = ""
    /\ aEnvelope = <<>>
    /\ aBuffer = <<>>
    /\ aClip = [samples |-> <<>>, gains |-> <<>>]
    /\ aPeaks = <<>>

Renders == {1, 2}

NoOutput ==
    [subseeds |-> <<>>, cameras |-> <<>>, overlays |-> <<>>, starts |-> <<>>,
     timeline |-> 0,
     envelope |-> <<>>, gains |-> <<>>, grain |-> {}]

DetIdle ==
    /\ dReq = [seed |-> 0, fps |-> 30, camera |-> [type |-> "static", intensity |-> 0]]
    /\ dHash = <<>>
    /\ dpc = [r \in Renders |-> "idle"]
    /\ dEnv = [r \in Renders |-> [suffix |-> "", clock |-> 0]]
    /\ dCaption = [r \in Renders |-> <<>>]
    /\ dSampled = [r \in Renders |-> <<>>]
    /\ dOut = [r \in Renders |-> NoOutput]

GrainIdle ==
    /\ gReq = [seed |-> 0, fps |-> 30, shape |-> <<>>, enabled |-> FALSE, strength |-> 0]
    /\ gDraws = 0
    /\ gSamples = <<>>

BeatIdle ==
    /\ bDurations = <<>>
    /\ bBeatTimes = <<>>
    /\ bAligned = <<>>
    /\ bpc = "idle"

EndpointIdle ==
    /\ eEndpoint = ""
    /\ ePayload = [request_id |-> <<>>, seed |-> 0, scene_count |-> 0]
    /\ ePos = 0
    /\ eOutcome = "idle"
    /\ eResponse = [status |-> 0, body |-> <<>>]

WorkIdle ==
    /\ wRequestId = <<>>
    /\ wpc = <<>>
    /\ wWorkdir = <<>>
    /\ wTemp = {}

NoCameraParams == [zoom_start |-> 0, zoom_end |-> 0, pan_x |-> 0, pan_y |-> 0]

CameraIdle ==
    /\ camCfg = [type |-> "static", intensity |-> 0]
    /\ camDuration = 0
    /\ camSize = <<0, 0>>
    /\ camRandom = <<>>
    /\ camDrawn = 0
    /\ camParams = NoCameraParams
    /\ camSamples = <<>>
    /\ campc = "idle"

OutputIdle ==
    /\ xRequestId = <<>>
    /\ xpc = <<>>
    /\ xOutput = <<>>
    /\ xOpen = {}

JobsIdle ==
    /\ jId = <<>>
    /\ jpc = <<>>
    /\ jRegistry = <<>>
    /\ jWritten = <<>>
    /\ jReader = <<>>

LateIdle == CameraIdle /\ OutputIdle /\ JobsIdle

----------------------------------------------------------------------------
(* Request contract: render_contract.py *)

\* SceneConfig.duration_seconds: gt 0.25, le 60.0
SceneDurations == {500, 2000, 6000}

\* TransitionConfig: type in {none, crossfade}, duration in [0, 3.0]
TransitionConfigs ==
    { [type |-> "none", duration |-> 600],
      [type |-> "crossfade", duration |-> 0],
      [type |-> "crossfade", duration |-> 600],
      [type |-> "crossfade", duration |-> 3000] }

SceneConfigs == [duration_seconds : SceneDurations, transition : TransitionConfigs]

SceneLists(n) == UNION { [1..k -> SceneConfigs] : k \in 0..n }

----------------------------------------------------------------------------
(* Rounding and order statistics (Python round, numpy.median) *)

\* round(n / d) for n >= 0, d > 0: to nearest, ties to even
RoundHalfEven(n, d) ==
    LET q == n \div d
        r == n % d
    IN  IF 2 * r < d THEN q
        ELSE IF 2 * r > d THEN q + 1
        ELSE IF q % 2 = 0 THEN q ELSE q + 1

RECURSIVE Insert(_, _)
Insert(x, s) ==
    IF s = <<>> THEN <<x>>
    ELSE IF x <= Head(s) THEN <<x>> \o s
    ELSE <<Head(s)>> \o Insert(x, Tail(s))

RECURSIVE Sorted(_)
Sorted(s) == IF s = <<>> THEN <<>> ELSE Insert(Head(s), Sorted(Tail(s)))

\* twice the median of a non-empty sequence (the median of an even number of
\* values is the mean of the two middle ones)
Median2(s) ==
    LET t == Sorted(s)
        n == Len(t)
    IN  IF n % 2 = 1 THEN 2 * t[(n + 1) \div 2]
        ELSE t[n \div 2] + t[n \div 2 + 1]

----------------------------------------------------------------------------
(* BeatEngine.align_durations_to_beats *)

\* variant: the median inter-beat interval without the clamp
BeatUnit2Unclamped(beats) ==
    Median2([k \in 1..(Len(beats) - 1) |-> beats[k + 1] - beats[k]])

\* twice the beat unit: median inter-beat interval clamped to [0.3, 2.0] s
BeatUnit2(beats) ==
    LET intervals == [k \in 1..(Len(beats) - 1) |-> beats[k + 1] - beats[k]]
    IN  Max(600, Min(4000, Median2(intervals)))

\* variant: the aligned duration is not raised to 0.5 s
AlignOneUnfloored(duration, unit2) ==
    RoundHalfEven(Max(1, RoundHalfEven(2 * duration, unit2)) * unit2, 2)

\* lines 28-30, for one duration
AlignOne(duration, unit2) ==
    LET nbeats == Max(1, RoundHalfEven(2 * duration, unit2))
        aligned_duration == RoundHalfEven(nbeats * unit2, 2)
    IN  Max(500, aligned_duration)

AlignDurationsToBeats(durations, beats) ==
    IF Len(beats) < 2 THEN durations
    ELSE [k \in 1..Len(durations) |-> AlignOne(durations[k], BeatUnit2(beats))]

----------------------------------------------------------------------------
(* Settings, request contract and filesystem of the pipeline *)

\* Settings.from_env: the defaults (24 scenes, 900 s) or tighter limits set
\* through RENDERER_MAX_SCENES / RENDERER_MAX_TOTAL_DURATION_SECONDS
SettingsChoices ==
    { [max_scenes |-> 24, max_total_duration_seconds |-> 900000],
      [max_scenes |-> 1, max_total_duration_seconds |-> 1000] }

\* RenderRequest.scenes: min_length 1, max_length 24
MinScenesContract == 1

MaxScenesContract == 24

ImagePaths == {"img1.png", "img2.png"}

MusicPath == "music.mp3"

NarrationPath == "narration.wav"

PathKinds == {"file", "dir", "missing"}

NoTrack == [present |-> FALSE, path |-> ""]

Track(p) == [present |-> TRUE, path |-> p]

PipelineDurations == {300, 6000}

SceneInputs == [image_path : ImagePaths, duration_seconds : PipelineDurations]

\* transition_seconds: ge 0, le 2.0
TransitionSeconds == {0, 2000}

Payloads ==
    [ scenes : UNION { [1..k -> SceneInputs] : k \in 0..MaxScenes },
      narration : {NoTrack, Track(NarrationPath)},
      music : {NoTrack, Track(MusicPath)},
      transition_seconds : TransitionSeconds ]

FileSystems ==
    { f \in [ImagePaths \cup {MusicPath, NarrationPath} -> PathKinds] :
        f[MusicPath] # "dir" /\ f[NarrationPath] # "dir" }

\* detect_beats: what the beat tracker may return for a music file
BeatResults == {<<>>, <<0, 500, 1000>>, <<0, 2000, 4000>>}

WorkdirSuffixes == {"0a1b2c3d", "4e5f6a7b"}

NoError == [type |-> "none", reason |-> "", path |-> ""]

ValueError(reason, path) == [type |-> "ValueError", reason |-> reason, path |-> path]

RuntimeFailure(reason) == [type |-> "Exception", reason |-> reason, path |-> ""]

\* render_video lines 13-18: a ValueError leaving run becomes HTTP 400, any
\* other exception HTTP 500
StatusCode(type) == IF type = "ValueError" THEN 400 ELSE 500

NoResponse == [status |-> "none", timeline_seconds |-> 0, scene_count |-> 0, beat_count |-> 0]

----------------------------------------------------------------------------
(* RenderRequest validators (pydantic) *)

\* validate_audio_presence: raises when both tracks are None
ValidateAudioPresence(narration, music) == narration.present \/ music.present

ContractAccepts(p) ==
    /\ Len(p.scenes) >= MinScenesContract
    /\ Len(p.scenes) <= MaxScenesContract
    /\ ValidateAudioPresence(p.narration, p.music)

----------------------------------------------------------------------------
(* MediaValidationService.validate *)

\* not path.exists() or not path.is_file()
NotRegularFile(f, p) == f[p] # "file"

RECURSIVE FirstBadImage(_, _, _)
FirstBadImage(f, ss, k) ==
    IF k > Len(ss) THEN 0
    ELSE IF NotRegularFile(f, ss[k].image_path) THEN k
    ELSE FirstBadImage(f, ss, k + 1)

\* variant: the audio tracks are checked before the scene images
ValidateAudioFirst(f, r) ==
    LET bad == FirstBadImage(f, r.scenes, 1) IN
    IF r.music.present /\ NotRegularFile(f, r.music.path)
        THEN ValueError("Music track not found", r.music.path)
    ELSE IF r.narration.present /\ NotRegularFile(f, r.narration.path)
        THEN ValueError("Narration track not found", r.narration.path)
    ELSE IF bad # 0 THEN ValueError("Scene image not found", r.scenes[bad].image_path)
    ELSE NoError

\* the exception validate raises, or NoError
Validate(f, r) ==
    LET bad == FirstBadImage(f, r.scenes, 1) IN
    IF bad # 0 THEN ValueError("Scene image not found", r.scenes[bad].image_path)
    ELSE IF r.music.present /\ NotRegularFile(f, r.music.path)
        THEN ValueError("Music track not found", r.music.path)
    ELSE IF r.narration.present /\ NotRegularFile(f, r.narration.path)
        THEN ValueError("Narration track not found", r.narration.path)
    ELSE NoError

----------------------------------------------------------------------------
(* StorageService and filesystem helpers *)

\* create_workdir: temp_root / "{safe_id}-{unique}"
WorkdirName(unique) == <<"req", unique>>

\* reset_dir: remove the directory if it exists, then create it
ResetDir(dirs, d) == (dirs \ {d}) \cup {d}

\* shutil.rmtree(workdir, ignore_errors=True)
RmTree(dirs, d) == dirs \ {d}

----------------------------------------------------------------------------
(* RenderPipeline.run *)

PipeIdle ==
    /\ settings = [max_scenes |-> 24, max_total_duration_seconds |-> 900000]
    /\ fs = [p \in ImagePaths \cup {MusicPath, NarrationPath} |-> "file"]
    /\ payload = [scenes |-> <<>>, narration |-> NoTrack, music |-> NoTrack,
                  transition_seconds |-> 0]
    /\ req = payload
    /\ rpc = "idle"
    /\ error = NoError
    /\ workdir = <<>>
    /\ tmpDirs = {}
    /\ beat_times = <<>>
    /\ aligned_durations = <<>>
    /\ built = <<>>
    /\ video_duration = 0
    /\ mixed = FALSE
    /\ styled = FALSE
    /\ export_started = FALSE
    /\ outputFile = "absent"
    /\ response = NoResponse

Init ==
    /\ ComposeIdle
    /\ AudioIdle
    /\ DetIdle
    /\ GrainIdle
    /\ BeatIdle
    /\ WorkIdle
    /\ EndpointIdle
    /\ LateIdle
    /\ settings \in SettingsChoices
    /\ fs \in FileSystems
    /\ payload \in Payloads
    /\ req = payload
    /\ rpc = "construct"
    /\ error = NoError
    /\ workdir = <<>>
    /\ tmpDirs = {}
    /\ beat_times = <<>>
    /\ aligned_durations = <<>>
    /\ built = <<>>
    /\ video_duration = 0
    /\ mixed = FALSE
    /\ styled = FALSE
    /\ export_started = FALSE
    /\ outputFile = "absent"
    /\ response = NoResponse

Raise(e) == rpc' = "raised" /\ error' = e

\* render_video(payload: RenderRequest): the request model is validated
\* before the handler runs
ConstructRequest ==
    /\ rpc = "construct"
    /\ rpc' = IF ContractAccepts(payload) THEN "validate" ELSE "rejected"
    /\ UNCHANGED <<notPipeVars, settings, fs, payload, req, error, workdir, tmpDirs,
                   beat_times, aligned_durations, built, video_duration, mixed, styled,
                   export_started, outputFile, response>>

\* line 35
RunValidate ==
    /\ rpc = "validate"
    /\ IF Validate(fs, req) = NoError
       THEN rpc' = "check_scenes" /\ error' = error
       ELSE Raise(Validate(fs, req))
    /\ UNCHANGED <<notPipeVars, settings, fs, payload, req, workdir, tmpDirs, beat_times,
                   aligned_durations, built, video_duration, mixed, styled,
                   export_started, outputFile, response>>

\* lines 36-37
CheckSceneCount ==
    /\ rpc = "check_scenes"
    /\ IF Len(req.scenes) > settings.max_scenes
       THEN Raise(ValueError("Scene count exceeds limit", ""))
       ELSE rpc' = "create_workdir" /\ error' = error
    /\ UNCHANGED <<notPipeVars, settings, fs, payload, req, workdir, tmpDirs, beat_times,
                   aligned_durations, built, video_duration, mixed, styled,
                   export_started, outputFile, response>>

\* lines 39-40
CreateWorkdir ==
    /\ rpc = "create_workdir"
    /\ \E unique \in WorkdirSuffixes :
        /\ workdir' = WorkdirName(unique)
        /\ tmpDirs' = ResetDir(tmpDirs, WorkdirName(unique))
    /\ rpc' = "detect_beats"
    /\ UNCHANGED <<notPipeVars, settings, fs, payload, req, error, beat_times,
                   aligned_durations, built, video_duration, mixed, styled,
                   export_started, outputFile, response>>

\* lines 42-44: the beat tracker returns timestamps or fails on the file
DetectBeats ==
    /\ rpc = "detect_beats"
    /\ IF req.music.present
       THEN \/ \E b \in BeatResults :
                 beat_times' = b /\ rpc' = "align" /\ error' = error
            \/ beat_times' = beat_times /\ Raise(RuntimeFailure("beat detection failed"))
       ELSE beat_times' = <<>> /\ rpc' = "align" /\ error' = error
    /\ UNCHANGED <<notPipeVars, settings, fs, payload, req, workdir, tmpDirs,
                   aligned_durations, built, video_duration, mixed, styled,
                   export_started, outputFile, response>>

RequestedDurations(r) == [k \in 1..Len(r.scenes) |-> r.scenes[k].duration_seconds]

\* lines 46-47
AlignDurations ==
    /\ rpc = "align"
    /\ aligned_durations' =
          IF beat_times # <<>>
          THEN AlignDurationsToBeats(RequestedDurations(req), beat_times)
          ELSE RequestedDurations(req)
    /\ rpc' = "check_total"
    /\ UNCHANGED <<notPipeVars, settings, fs, payload, req, error, workdir, tmpDirs,
                   beat_times, built, video_duration, mixed, styled, export_started,
                   outputFile, response>>

\* variant: the limit is applied to the requested, not the aligned, durations
TotalDurationRequested == SeqSum(RequestedDurations(req))

\* line 49
TotalDuration == SeqSum(aligned_durations)

\* lines 49-53
CheckTotalDuration ==
    /\ rpc = "check_total"
    /\ IF TotalDuration > settings.max_total_duration_seconds
       THEN Raise(ValueError("Timeline duration exceeds limit", ""))
       ELSE rpc' = "build" /\ error' = error
    /\ UNCHANGED <<notPipeVars, settings, fs, payload, req, workdir, tmpDirs, beat_times,
                   aligned_durations, built, video_duration, mixed, styled,
                   export_started, outputFile, response>>

\* variant: the clips are built before the total duration has been checked
BuildSceneClipEarly ==
    /\ rpc \in {"check_total", "build"}
    /\ Len(built) < Len(req.scenes)
    /\ \/ /\ built' = Append(built, aligned_durations[Len(built) + 1])
          /\ UNCHANGED <<rpc, error>>
       \/ /\ Raise(RuntimeFailure("scene clip failed"))
          /\ UNCHANGED built
    /\ UNCHANGED <<notPipeVars, settings, fs, payload, req, workdir, tmpDirs, beat_times,
                   aligned_durations, video_duration, mixed, styled, export_started,
                   outputFile, response>>

\* lines 57-59: one iteration; the image decoder may fail on a scene
BuildSceneClip ==
    /\ rpc = "build"
    /\ Len(built) < Len(req.scenes)
    /\ \/ /\ built' = Append(built, aligned_durations[Len(built) + 1])
          /\ UNCHANGED <<rpc, error>>
       \/ /\ Raise(RuntimeFailure("scene clip failed"))
          /\ UNCHANGED built
    /\ UNCHANGED <<notPipeVars, settings, fs, payload, req, workdir, tmpDirs, beat_times,
                   aligned_durations, video_duration, mixed, styled, export_started,
                   outputFile, response>>

\* concatenate_videoclips(clips, method="compose", padding=-transition) of
\* moviepy 1.x: tt = maximum(0, cumsum([0] + durations) + padding * arange(N + 1));
\* clip i (from 1) starts at tt[i - 1]
ConcatStarts(ds, transition) ==
    [i \in 1..Len(ds) |-> Max(0, SeqSum(SubSeq(ds, 1, i - 1)) - (i - 1) * transition)]

\* the duration of the concatenation is the last entry of tt (lines 61-66:
\* no padding when transition is 0)
ConcatDuration(ds, transition) ==
    IF transition > 0 THEN Max(0, SeqSum(ds) - Len(ds) * transition) ELSE SeqSum(ds)

\* lines 61-68
Concatenate ==
    /\ rpc = "build"
    /\ Len(built) = Len(req.scenes)
    /\ video_duration' = ConcatDuration(built, req.transition_seconds)
    /\ rpc' = "mix"
    /\ UNCHANGED <<notPipeVars, settings, fs, payload, req, error, workdir, tmpDirs,
                   beat_times, aligned_durations, built, mixed, styled, export_started,
                   outputFile, response>>

\* AudioEngine.mix_audio lines 18-28: the clips list is empty without tracks
EngineHasClips(narration, music) == narration.present \/ music.present

\* line 69: the mix is produced, or mix_audio raises: ValueError when the clips
\* list is empty, the decoder's error when an audio file fails to load
MixAudio ==
    /\ rpc = "mix"
    /\ \/ /\ EngineHasClips(req.narration, req.music)
          /\ mixed' = TRUE
          /\ rpc' = "style"
          /\ error' = error
       \/ /\ Raise(IF EngineHasClips(req.narration, req.music)
                   THEN RuntimeFailure("audio file failed to load")
                   ELSE ValueError("No audio clips available for mix", ""))
          /\ UNCHANGED mixed
    /\ UNCHANGED <<notPipeVars, settings, fs, payload, req, workdir, tmpDirs, beat_times,
                   aligned_durations, built, video_duration, styled, export_started,
                   outputFile, response>>

\* lines 70-73
ApplyStyle ==
    /\ rpc = "style"
    /\ styled' = TRUE
    /\ rpc' = "export"
    /\ UNCHANGED <<notPipeVars, settings, fs, payload, req, error, workdir, tmpDirs,
                   beat_times, aligned_durations, built, video_duration, mixed,
                   export_started, outputFile, response>>

\* line 75, ExportEngine.export: write_videofile starts writing the output path
ExportBegin ==
    /\ rpc = "export"
    /\ export_started' = TRUE
    /\ outputFile' = "partial"
    /\ rpc' = "exporting"
    /\ UNCHANGED <<notPipeVars, settings, fs, payload, req, error, workdir, tmpDirs,
                   beat_times, aligned_durations, built, video_duration, mixed, styled,
                   response>>

\* the encoder completes or fails (disk full, codec error)
ExportEnd ==
    /\ rpc = "exporting"
    /\ \/ outputFile' = "complete" /\ rpc' = "finish" /\ error' = error
       \/ outputFile' = outputFile /\ Raise(RuntimeFailure("export failed"))
    /\ UNCHANGED <<notPipeVars, settings, fs, payload, req, workdir, tmpDirs, beat_times,
                   aligned_durations, built, video_duration, mixed, styled,
                   export_started, response>>

\* lines 77-94: metrics, _cleanup and the response
FinishRun ==
    /\ rpc = "finish"
    /\ tmpDirs' = RmTree(tmpDirs, workdir)
    /\ response' = [status |-> "success", timeline_seconds |-> video_duration,
                    scene_count |-> Len(req.scenes), beat_count |-> Len(beat_times)]
    /\ rpc' = "returned"
    /\ UNCHANGED <<notPipeVars, settings, fs, payload, req, error, workdir, beat_times,
                   aligned_durations, built, video_duration, mixed, styled,
                   export_started, outputFile>>

Next ==
    \/ ConstructRequest
    \/ RunValidate
    \/ CheckSceneCount
    \/ CreateWorkdir
    \/ DetectBeats
    \/ AlignDurations
    \/ CheckTotalDuration
    \/ BuildSceneClip
    \/ Concatenate
    \/ MixAudio
    \/ ApplyStyle
    \/ ExportBegin
    \/ ExportEnd
    \/ FinishRun

Spec == Init /\ [][Next]_vars

----------------------------------------------------------------------------
(* Ratios <<num, den>> with den > 0, kept in lowest terms *)

Abs(x) == IF x < 0 THEN -x ELSE x

RECURSIVE Gcd(_, _)
Gcd(a, b) == IF b = 0 THEN a ELSE Gcd(b, a % b)

Rat(n, d) == IF n = 0 THEN <<0, 1>> ELSE <<n \div Gcd(n, d), d \div Gcd(n, d)>>

RatMul(a, b) == Rat(a[1] * b[1], a[2] * b[2])

RatLeq(a, b) == a[1] * b[2] <= b[1] * a[2]

RatMin(a, b) == IF RatLeq(a, b) THEN a ELSE b

RatMax(a, b) == IF RatLeq(a, b) THEN b ELSE a

RECURSIVE RatProduct(_)
RatProduct(gs) == IF gs = <<>> THEN <<1, 1>> ELSE RatMul(Head(gs), RatProduct(Tail(gs)))

\* largest r in lo..hi with r * r <= x (np.sqrt in thousandths, rounded down)
RECURSIVE IsqrtIn(_, _, _)
IsqrtIn(x, lo, hi) ==
    IF lo = hi THEN lo
    ELSE LET mid == (lo + hi + 1) \div 2
         IN  IF mid * mid <= x THEN IsqrtIn(x, mid, hi) ELSE IsqrtIn(x, lo, mid - 1)

Isqrt(x) == IsqrtIn(x, 0, 4000)

----------------------------------------------------------------------------
(* _normalize of AudioMixerService and AudioEngine (the two are identical) *)

\* np.max(np.abs(sample)) of the samples of a clip, in thousandths; the clip
\* carries the gains of its volumex wrappers, applied when it is sampled
SoundArrayPeak(clip) ==
    IF clip.samples = <<>> THEN <<1000, 1>>
    ELSE RatMul(<<SeqMax([k \in 1..Len(clip.samples) |-> Abs(clip.samples[k])]), 1>>,
                RatProduct(clip.gains))

\* variant: max instead of min
NormalizeGainMax(peak) == RatMax(<<2, 1>>, Rat(920 * peak[2], peak[1]))

\* variant: no cap on the gain
NormalizeGainUncapped(peak) == Rat(920 * peak[2], peak[1])

\* gain = min(2.0, 0.92 / peak), for peak > 0
NormalizeGain(peak) == RatMin(<<2, 1>>, Rat(920 * peak[2], peak[1]))

NormalizeClip(clip) ==
    LET peak == SoundArrayPeak(clip) IN
    IF peak[1] <= 0 THEN clip
    ELSE [clip EXCEPT !.gains = Append(@, NormalizeGain(peak))]

----------------------------------------------------------------------------
(* AudioMixerService._build_ducking_envelope *)

\* to_soundarray(fps): number of samples of a clip of the given duration
SampleCount(duration) == (SampleRate * duration) \div 1000

\* window = max(1, int(sample_rate / 25))
Window == Max(1, SampleRate \div 25)

\* np.convolve(mono**2, np.ones(window) / window, mode="same")[i], i from 0:
\* the output has max(N, window) entries and is centred on the full convolution
MeanSquare(mono, i) ==
    LET n == Len(mono)
        off == (Min(n, Window) - 1) \div 2
        terms == [j \in 1..n |->
                    IF i + off - (j - 1) >= 0 /\ i + off - (j - 1) <= Window - 1
                    THEN mono[j] * mono[j] ELSE 0]
    IN  SeqSum(terms) \div Window

\* level = np.sqrt(...), for a non-empty signal
Level(mono) == [i \in 1..Max(Len(mono), Window) |-> Isqrt(MeanSquare(mono, i - 1))]

\* 5 * np.percentile(level, 60): linear interpolation at index 0.6 * (n - 1)
Percentile60x5(level) ==
    LET t == Sorted(level)
        pos == 3 * (Len(t) - 1)
        k == pos \div 5
        rem == pos % 5
    IN  IF rem = 0 THEN 5 * t[k + 1]
        ELSE 5 * t[k + 1] + (t[k + 2] - t[k + 1]) * rem

\* variant: the percentile alone, without the 0.01 floor
Threshold5Unfloored(level) == Percentile60x5(level)

\* 5 * threshold, threshold = max(0.01, percentile)
Threshold5(level) == Max(50, Percentile60x5(level))

\* max(1, int(timeline_seconds * 25))
EnvelopeSize(timeline) == Max(1, (timeline * 25) \div 1000)

\* variant: a deeper duck than the clip to [0.35, 1.0] lets through
DuckedGainDeep == 450 - 200

\* gain of a window whose narration level reaches the threshold
DuckedGain == 450

\* np.clip(x, 0.35, 1.0)
ClipEnvelope(x) == Max(350, Min(1000, x))

\* the envelope for a non-empty narration signal (lines 45-53)
BuildDuckingEnvelope(mono, timeline) ==
    LET level == Level(mono)
        envelope(threshold5) ==
            [i \in 1..EnvelopeSize(timeline) |->
                LET idx == Min(Len(level) - 1, (i - 1) * Window)
                IN  ClipEnvelope(IF 5 * level[idx + 1] >= threshold5
                                 THEN DuckedGain ELSE 1000)]
    IN  CHOOSE e \in { envelope(t5) : t5 \in {Threshold5(level)} } : TRUE

\* line 23: index used for playback time t (ms) into an envelope of n entries
EnvelopeIndex(n, t) == Min(n - 1, (t * 25) \div 1000)

----------------------------------------------------------------------------
(* AudioMixerService.mix and AudioEngine.mix_audio *)

\* AudioTrackConfig.volume: gt 0, le 2.0
NarrationTracks ==
    { [present |-> FALSE, volume |-> 1000],
      [present |-> TRUE, volume |-> 1000],
      [present |-> TRUE, volume |-> 2000] }

MusicTracks ==
    { [present |-> FALSE, volume |-> 1000],
      [present |-> TRUE, volume |-> 500],
      [present |-> TRUE, volume |-> 2000] }

\* AudioMixConfig: the duck flag and the fades (seconds, ge 0, le 15)
NestedAudioConfigs ==
    [ narration : NarrationTracks, music : MusicTracks,
      duck_music_under_narration : BOOLEAN,
      fade_in_seconds : {0, 40}, fade_out_seconds : {0} ]
    \cup
    [ narration : NarrationTracks, music : MusicTracks,
      duck_music_under_narration : BOOLEAN,
      fade_in_seconds : {40}, fade_out_seconds : {20} ]

\* the flat contract has the two tracks only
FlatAudioConfigs ==
    [ narration : NarrationTracks, music : MusicTracks,
      duck_music_under_narration : {FALSE},
      fade_in_seconds : {0}, fade_out_seconds : {0} ]

\* amplitudes of the narration file: silence, below the 0.01 floor, speech
NarrationAmplitudes == {0, 4, 400}

\* one period of the music file
MusicLoops == {<<600>>, <<200, 1000>>}

Timelines == { k * 20 : k \in 0..MaxTimelineSteps }

\* clip.volumex(volume), sample by sample
Volumex(samples, volume) == [k \in 1..Len(samples) |-> (samples[k] * volume) \div 1000]

\* audio_loop(duration=timeline_seconds): the file repeated over the timeline
AudioLoop(loop, timeline) ==
    [k \in 1..SampleCount(timeline) |-> loop[((k - 1) % Len(loop)) + 1]]

\* time in ms of sample k (from 0)
SampleTime(k) == (k * 1000) \div SampleRate

\* afx.audio_fadein: factor min(t / duration, 1)
FadeIn(x, t, duration) == IF duration > 0 THEN (x * Min(t, duration)) \div duration ELSE x

\* afx.audio_fadeout: factor min((clip.duration - t) / duration, 1)
FadeOut(x, t, timeline, duration) ==
    IF duration > 0 THEN (x * Min(timeline - t, duration)) \div duration ELSE x

\* lines 29-34 of AudioMixerService.mix: the composite of the narration and the
\* (ducked) music, with the fades; env is <<>> when no envelope was built
MixerBuffer(cfg, timeline, narr, loop, env) ==
    LET narration == IF cfg.narration.present
                     THEN Volumex(narr, cfg.narration.volume)
                     ELSE [k \in 1..SampleCount(timeline) |-> 0]
        music == IF cfg.music.present
                 THEN Volumex(AudioLoop(loop, timeline), cfg.music.volume)
                 ELSE [k \in 1..SampleCount(timeline) |-> 0]
        ducking(k) == IF env = <<>> THEN 1000
                      ELSE env[EnvelopeIndex(Len(env), SampleTime(k)) + 1]
        sum(k) == narration[k + 1] + (music[k + 1] * ducking(k)) \div 1000
    IN  [k \in 1..SampleCount(timeline) |->
            FadeOut(FadeIn(sum(k - 1), SampleTime(k - 1), cfg.fade_in_seconds),
                    SampleTime(k - 1), timeline, cfg.fade_out_seconds)]

\* lines 18-30 of AudioEngine.mix_audio: narration plus looped music
EngineBuffer(cfg, timeline, narr, loop) ==
    LET narration == IF cfg.narration.present
                     THEN Volumex(narr, cfg.narration.volume)
                     ELSE [k \in 1..SampleCount(timeline) |-> 0]
        music == IF cfg.music.present
                 THEN Volumex(AudioLoop(loop, timeline), cfg.music.volume)
                 ELSE [k \in 1..SampleCount(timeline) |-> 0]
    IN  [k \in 1..SampleCount(timeline) |-> narration[k] + music[k]]

\* variant: an empty clips list is mixed instead of rejected
HasClipsAlways(cfg) == TRUE

\* `if not clips` of both mixers
HasClips(cfg) == cfg.narration.present \/ cfg.music.present

InitAudio ==
    /\ ComposeIdle
    /\ PipeIdle
    /\ DetIdle
    /\ GrainIdle
    /\ BeatIdle
    /\ WorkIdle
    /\ EndpointIdle
    /\ LateIdle
    /\ aContract \in {"nested", "flat"}
    /\ aCfg \in IF aContract = "nested" THEN NestedAudioConfigs ELSE FlatAudioConfigs
    /\ aT \in Timelines
    /\ aNarr \in IF aCfg.narration.present
                 THEN [1..SampleCount(aT) -> NarrationAmplitudes]
                 ELSE {<<>>}
    /\ aLoop \in IF aCfg.music.present THEN MusicLoops ELSE {<<>>}
    /\ aAccepted = "pending"
    /\ apc = "start"
    /\ aError = ""
    /\ aEnvelope = <<>>
    /\ aBuffer = <<>>
    /\ aClip = [samples |-> <<>>, gains |-> <<>>]
    /\ aPeaks = <<>>

\* RenderRequest(...) of either contract: validate_audio_presence
ConstructAudio ==
    /\ apc = "start"
    /\ aAccepted = "pending"
    /\ aAccepted' = IF ValidateAudioPresence(aCfg.narration, aCfg.music)
                    THEN "accepted" ELSE "rejected"
    /\ UNCHANGED <<notAudioVars, aContract, aCfg, aT, aNarr, aLoop, apc, aError,
                   aEnvelope, aBuffer, aClip, aPeaks>>

\* the mixer is called by the pipeline for an accepted request, or directly
MixCallable == apc = "start" /\ aAccepted # "rejected"

\* AudioMixerService.mix lines 11-24: the clips, with the ducking envelope when
\* ducking is on and there is narration; np.convolve raises on an empty signal
MixTracks ==
    /\ MixCallable
    /\ aContract = "nested"
    /\ IF aCfg.music.present /\ aCfg.duck_music_under_narration /\ aCfg.narration.present
       THEN IF SampleCount(aT) = 0
            THEN apc' = "raised" /\ aError' = "ValueError: empty signal"
                 /\ UNCHANGED aEnvelope
            ELSE apc' = "check" /\ UNCHANGED aError
                 /\ aEnvelope' = BuildDuckingEnvelope(
                                    Volumex(aNarr, aCfg.narration.volume), aT)
       ELSE apc' = "check" /\ UNCHANGED <<aError, aEnvelope>>
    /\ UNCHANGED <<notAudioVars, aContract, aCfg, aT, aNarr, aLoop, aAccepted, aBuffer,
                   aClip, aPeaks>>

\* lines 26-34
MixComposite ==
    /\ apc = "check"
    /\ IF HasClips(aCfg)
       THEN /\ aBuffer' = MixerBuffer(aCfg, aT, aNarr, aLoop, aEnvelope)
            /\ apc' = "normalize"
            /\ UNCHANGED aError
       ELSE /\ apc' = "raised"
            /\ aError' = "ValueError: No audio clips available for mix"
            /\ UNCHANGED aBuffer
    /\ UNCHANGED <<notAudioVars, aContract, aCfg, aT, aNarr, aLoop, aAccepted, aEnvelope,
                   aClip, aPeaks>>

\* AudioEngine.mix_audio lines 18-30
EngineMix ==
    /\ MixCallable
    /\ aContract = "flat"
    /\ IF HasClips(aCfg)
       THEN /\ aBuffer' = EngineBuffer(aCfg, aT, aNarr, aLoop)
            /\ apc' = "normalize"
            /\ UNCHANGED aError
       ELSE /\ apc' = "raised"
            /\ aError' = "ValueError: No audio clips available for mix"
            /\ UNCHANGED aBuffer
    /\ UNCHANGED <<notAudioVars, aContract, aCfg, aT, aNarr, aLoop, aAccepted, aEnvelope,
                   aClip, aPeaks>>

\* line 36 / line 31: return self._normalize(mixed)
MixNormalize ==
    /\ apc = "normalize"
    /\ aPeaks' = <<SoundArrayPeak([samples |-> aBuffer, gains |-> <<>>])>>
    /\ aClip' = NormalizeClip([samples |-> aBuffer, gains |-> <<>>])
    /\ apc' = "mixed"
    /\ UNCHANGED <<notAudioVars, aContract, aCfg, aT, aNarr, aLoop, aAccepted, aError,
                   aEnvelope, aBuffer>>

\* _normalize applied to a clip it returned
NormalizeAgain ==
    /\ apc = "mixed"
    /\ Len(aPeaks) < MaxNormalizePasses
    /\ aPeaks' = Append(aPeaks, SoundArrayPeak(aClip))
    /\ aClip' = NormalizeClip(aClip)
    /\ UNCHANGED <<notAudioVars, aContract, aCfg, aT, aNarr, aLoop, aAccepted, apc, aError,
                   aEnvelope, aBuffer>>

NextAudio ==
    \/ ConstructAudio
    \/ MixTracks
    \/ MixComposite
    \/ EngineMix
    \/ MixNormalize
    \/ NormalizeAgain

SpecAudio == InitAudio /\ [][NextAudio]_vars

----------------------------------------------------------------------------
(* TransitionService.compose *)

\* transition.type == "crossfade" and transition.duration > 0
IsCrossfade(tr) == tr.type = "crossfade" /\ tr.duration > 0

\* line 20: fade_duration of the clip being placed
FadeDuration(i) ==
    IF i > 1 /\ IsCrossfade(scenes[i].transition)
    THEN Min(scenes[i].transition.duration, FourFifths(clips[i]))
    ELSE 0

\* the pull-back without the 0.8 * clip.duration cap of line 27
PullBackUncapped(i) ==
    IF i < Len(clips) /\ IsCrossfade(scenes[i + 1].transition)
    THEN scenes[i + 1].transition.duration
    ELSE 0

\* lines 24-27: the pull-back after placing clip i; `clip` is still clips[i]
PullBack(i) ==
    IF i < Len(clips) /\ IsCrossfade(scenes[i + 1].transition)
    THEN Min(scenes[i + 1].transition.duration, FourFifths(clips[i]))
    ELSE 0

InitCompose ==
    /\ PipeIdle
    /\ AudioIdle
    /\ DetIdle
    /\ GrainIdle
    /\ BeatIdle
    /\ WorkIdle
    /\ EndpointIdle
    /\ LateIdle
    /\ scenes \in SceneLists(MaxClips)
    /\ clips = [i \in 1..Len(scenes) |-> scenes[i].duration_seconds]
    /\ cIdx = 0
    /\ current_start = 0
    /\ started = <<>>
    /\ pulls = <<>>
    /\ total_duration = 0
    /\ cpc = "start"

\* lines 10-14
ComposeEnter ==
    /\ cpc = "start"
    /\ cpc' = IF clips = <<>> THEN "raised" ELSE "loop"
    /\ UNCHANGED <<notComposeVars, scenes, clips, cIdx, current_start, started, pulls, total_duration>>

\* lines 15-27: one iteration of the loop (cIdx + 1 is the 1-based position)
ComposeStep ==
    /\ cpc = "loop"
    /\ cIdx < Len(clips)
    /\ LET i == cIdx + 1 IN
        /\ started' = Append(started,
               [start |-> current_start, duration |-> clips[i], fade |-> FadeDuration(i)])
        /\ pulls' = Append(pulls, PullBack(i))
        /\ current_start' = current_start + clips[i] - PullBack(i)
    /\ cIdx' = cIdx + 1
    /\ UNCHANGED <<notComposeVars, scenes, clips, total_duration, cpc>>

\* lines 29-30
ComposeFinish ==
    /\ cpc = "loop"
    /\ cIdx = Len(clips)
    /\ total_duration' = SeqMax([k \in 1..Len(started) |-> started[k].start + started[k].duration])
    /\ cpc' = "done"
    /\ UNCHANGED <<notComposeVars, scenes, clips, cIdx, current_start, started, pulls>>

\* start of clip i once the loop has placed it: the value of current_start then
RECURSIVE PlacedStart(_)
PlacedStart(i) == IF i = 1 THEN 0 ELSE PlacedStart(i - 1) + clips[i - 1] - PullBack(i - 1)

\* line 29
TimelineDuration == SeqMax([k \in 1..Len(clips) |-> PlacedStart(k) + clips[k]])

NextCompose == ComposeEnter \/ ComposeStep \/ ComposeFinish

SpecCompose == InitCompose /\ [][NextCompose]_vars

----------------------------------------------------------------------------
(* Deterministic derivation: utils/deterministic.py, camera, grain *)

\* f"scene-{idx}"
SceneNamespace(idx) == <<"scene", idx>>

SubSeeds == {11, 23}

\* stable_seed(seed, namespace): the hash is a fixed function; dHash is its
\* table for the seed of the request
StableSeed(namespace) == dHash[namespace]

\* Random(subseed).random(), in thousandths: the first four draws of the stream
\* of each sub-seed (a fixed function of the sub-seed)
RandomDraws(subseed) ==
    IF subseed = 11 THEN <<0, 999, 500, 250>> ELSE <<999, 0, 250, 750>>

\* CameraEffectsService.build_clip lines 23-31, in millionths, for the values
\* u that random() returns: static cameras and intensity <= 0 draw nothing;
\* rng.uniform(a, b) = a + (b - a) * random()
CameraParamsDrawn(camera, u) ==
    IF camera.type # "kenburns" \/ camera.intensity <= 0
    THEN [zoom_start |-> 1000000, zoom_end |-> 1000000, pan_x |-> 0, pan_y |-> 0]
    ELSE LET zs == 1000000 + ((30 * u[1]) * camera.intensity) \div 1000
         IN  [zoom_start |-> zs,
              zoom_end |-> zs + ((50000 + 110 * u[2]) * camera.intensity) \div 1000,
              pan_x |-> ((140 * u[3] - 70000) * camera.intensity) \div 1000,
              pan_y |-> ((100 * u[4] - 50000) * camera.intensity) \div 1000]

\* line 26: the generator of build_clip is Random(stable_seed(seed, namespace))
CameraParams(camera, subseed) == CameraParamsDrawn(camera, RandomDraws(subseed))

\* scene.caption is None
NoCaption == "None"

\* variant: the namespace index counts the overlays placed so far
SceneCameraShifted(scene, idx) ==
    CameraParams(scene.camera,
                 StableSeed(SceneNamespace(IF scene.caption = NoCaption THEN idx ELSE idx + 1)))

\* _build_scene_clip lines 39-47: the camera of scene idx draws from the stream
\* of namespace "scene-<idx>"
SceneCamera(scene, idx) == CameraParams(scene.camera, StableSeed(SceneNamespace(idx)))

\* lines 49-52: the base clip, and the caption when the scene has one
Overlays(scene) == IF scene.caption = NoCaption THEN 1 ELSE 2

\* FilmGrainService.apply line 13: max(0, int(round(t * fps)))
FrameIndex(t, fps) == Max(0, RoundHalfEven(t * fps, 1000))

\* variant: the grain generator is seeded from the number of frames sampled
GrainSeedSequential(r, t) == dReq.seed + Len(dSampled[r]) * 9973

\* line 14: seed + frame_idx * 9973, for the frame render r samples at time t
GrainSeed(r, t) == dReq.seed + FrameIndex(t, dReq.fps) * 9973

----------------------------------------------------------------------------
(* Two renders of the same request *)

DetSceneConfigs ==
    [ duration_seconds : {300, 400},
      transition : { [type |-> "none", duration |-> 600],
                     [type |-> "crossfade", duration |-> 600] } ]

DetCameras == { [type |-> "static", intensity |-> 500], [type |-> "kenburns", intensity |-> 500] }

DetSeeds == {0, 42}

DetAudioConfigs ==
    { [narration |-> [present |-> TRUE, volume |-> 1000],
       music |-> [present |-> TRUE, volume |-> 500],
       duck_music_under_narration |-> TRUE,
       fade_in_seconds |-> 40, fade_out_seconds |-> 20],
      [narration |-> [present |-> FALSE, volume |-> 1000],
       music |-> [present |-> TRUE, volume |-> 500],
       duck_music_under_narration |-> TRUE,
       fade_in_seconds |-> 0, fade_out_seconds |-> 0] }

\* captions of the two requests: the same, or differing in one scene by the
\* presence or by the text of its caption
CaptionPairs ==
    { <<<<NoCaption, NoCaption>>, <<NoCaption, NoCaption>>>>,
      <<<<"Dawn", NoCaption>>, <<NoCaption, NoCaption>>>>,
      <<<<NoCaption, "Dawn">>, <<NoCaption, "Dusk">>>> }

\* scene i of the request of render r
SceneOf(r, i) ==
    [duration_seconds |-> scenes[i].duration_seconds,
     transition |-> scenes[i].transition,
     camera |-> dReq.camera,
     caption |-> dCaption[r][i]]

\* wall clock at the start of a render and suffix of its working directory
Environments ==
    { [suffix |-> "0a1b2c3d", clock |-> 1000], [suffix |-> "4e5f6a7b", clock |-> 2000] }

\* timestamps (ms) at which frames are sampled
FrameTimes == {0, 50}

\* the first n samples of the narration file
NarrationFile(n) == [k \in 1..n |-> aNarr[((k - 1) % Len(aNarr)) + 1]]

InitDet ==
    /\ PipeIdle
    /\ GrainIdle
    /\ BeatIdle
    /\ WorkIdle
    /\ EndpointIdle
    /\ LateIdle
    /\ scenes \in { <<a, b>> : a \in { c \in DetSceneConfigs : c.transition.type = "none" },
                               b \in DetSceneConfigs }
    /\ clips = [i \in 1..Len(scenes) |-> scenes[i].duration_seconds]
    /\ cIdx = 0
    /\ current_start = 0
    /\ started = <<>>
    /\ pulls = <<>>
    /\ total_duration = 0
    /\ cpc = "idle"
    /\ aContract = "nested"
    /\ aCfg \in DetAudioConfigs
    /\ aT = 0
    /\ aNarr = IF aCfg.narration.present THEN <<400, 400, 0, 4, 0>> ELSE <<>>
    /\ aLoop = <<200, 1000>>
    /\ aAccepted = "accepted"
    /\ apc = "idle"
    /\ aError = ""
    /\ aEnvelope = <<>>
    /\ aBuffer = <<>>
    /\ aClip = [samples |-> <<>>, gains |-> <<>>]
    /\ aPeaks = <<>>
    /\ dReq \in [seed : DetSeeds, fps : {30}, camera : DetCameras]
    /\ dHash \in { h \in [{SceneNamespace(i) : i \in 0..2} -> SubSeeds] :
                     h[SceneNamespace(0)] = 11 /\ h[SceneNamespace(2)] = 23 }
    /\ dCaption \in CaptionPairs
    /\ dpc = [r \in Renders |-> "idle"]
    /\ dEnv = [r \in Renders |-> [suffix |-> "", clock |-> 0]]
    /\ dSampled = [r \in Renders |-> <<>>]
    /\ dOut = [r \in Renders |-> NoOutput]

\* a render starts: time.perf_counter(), create_workdir
DetStart(r) ==
    /\ dpc[r] = "idle"
    /\ \E e \in Environments : dEnv' = [dEnv EXCEPT ![r] = e]
    /\ dpc' = [dpc EXCEPT ![r] = "started"]
    /\ UNCHANGED <<composeVars, pipeVars, audioVars, sideVars, lateVars, dReq, dHash, dCaption, dSampled, dOut>>

\* VideoComposerService.compose lines 27-32: the scene clips and the timeline
DetCompose(r) ==
    /\ dpc[r] = "started"
    /\ dOut' = [dOut EXCEPT ![r] =
          [@ EXCEPT
             !.subseeds = [i \in 1..Len(scenes) |-> StableSeed(SceneNamespace(i - 1))],
             !.cameras = [i \in 1..Len(scenes) |-> SceneCamera(SceneOf(r, i), i - 1)],
             !.overlays = [i \in 1..Len(scenes) |-> Overlays(SceneOf(r, i))],
             !.starts = [i \in 1..Len(clips) |-> PlacedStart(i)],
             !.timeline = TimelineDuration]]
    /\ dpc' = [dpc EXCEPT ![r] = "composed"]
    /\ UNCHANGED <<composeVars, pipeVars, audioVars, sideVars, lateVars, dReq, dHash, dCaption, dEnv, dSampled>>

\* AudioMixerService.mix over the composed timeline
DetMix(r) ==
    /\ dpc[r] = "composed"
    /\ \E narr \in { IF aCfg.narration.present
                     THEN NarrationFile(SampleCount(dOut[r].timeline)) ELSE <<>> } :
       \E env \in { IF aCfg.music.present /\ aCfg.duck_music_under_narration
                       /\ aCfg.narration.present
                    THEN BuildDuckingEnvelope(Volumex(narr, aCfg.narration.volume),
                                              dOut[r].timeline)
                    ELSE <<>> } :
       \E buffer \in { MixerBuffer(aCfg, dOut[r].timeline, narr, aLoop, env) } :
          dOut' = [dOut EXCEPT ![r] =
             [@ EXCEPT !.envelope = env,
                       !.gains = NormalizeClip([samples |-> buffer, gains |-> <<>>]).gains]]
    /\ dpc' = [dpc EXCEPT ![r] = "mixed"]
    /\ UNCHANGED <<composeVars, pipeVars, audioVars, sideVars, lateVars, dReq, dHash, dCaption, dEnv, dSampled>>

\* _style_frame lines 80-84: the exporter samples the frame at time t of the
\* finished composition
DetSampleFrame(r, t) ==
    /\ dpc[r] = "mixed"
    /\ \A k \in 1..Len(dSampled[r]) : dSampled[r][k] # t
    /\ dOut' = [dOut EXCEPT ![r].grain = @ \cup {<<t, GrainSeed(r, t)>>}]
    /\ dSampled' = [dSampled EXCEPT ![r] = Append(@, t)]
    /\ UNCHANGED <<composeVars, pipeVars, audioVars, sideVars, lateVars, dReq, dHash, dCaption, dpc, dEnv>>

NextDet ==
    \/ \E r \in Renders : DetStart(r)
    \/ \E r \in Renders : DetCompose(r)
    \/ \E r \in Renders : DetMix(r)
    \/ \E r \in Renders, t \in FrameTimes : DetSampleFrame(r, t)

SpecDet == InitDet /\ [][NextDet]_vars

----------------------------------------------------------------------------
(* Film grain of the frames of a clip: FilmGrainService and StyleEngine *)

\* the namespace of the generator of StyleEngine
FilmGrainNamespace == <<"film-grain">>

NoNoise == [rng |-> 0, offset |-> 0, sigma |-> 0, shape |-> <<>>]

\* number of values rng.normal(..., size=frame.shape) draws
FrameSize(shape) == shape[1] * shape[2] * shape[3]

\* FilmGrainService.apply lines 10-16: the noise is the first FrameSize values
\* of a generator created for the frame; sigma = 12.0 * strength
ServiceNoise(t) ==
    IF ~gReq.enabled \/ gReq.strength <= 0 THEN NoNoise
    ELSE [rng |-> gReq.seed + FrameIndex(t, gReq.fps) * 9973,
          offset |-> 0,
          sigma |-> 12 * gReq.strength,
          shape |-> gReq.shape]

\* StyleEngine lines 21-23 and 53-56: one generator for the clip, created by
\* apply_cinematic_style; every sampled frame takes the next FrameSize values
StyleNoise(t) ==
    IF ~gReq.enabled THEN NoNoise
    ELSE [rng |-> StableSeed(FilmGrainNamespace),
          offset |-> gDraws,
          sigma |-> 3000,
          shape |-> gReq.shape]

GrainSeeds == {0, 9973}

FrameShapes == {<<1, 1, 3>>, <<2, 1, 3>>}

\* timestamps (ms) at which a frame may be requested
SampleTimestamps == {0, 17, 33, 50}

InitGrain ==
    /\ ComposeIdle
    /\ PipeIdle
    /\ AudioIdle
    /\ dReq = [seed |-> 0, fps |-> 30, camera |-> [type |-> "static", intensity |-> 0]]
    /\ dHash = [n \in {FilmGrainNamespace} |-> 23]
    /\ dpc = [r \in Renders |-> "idle"]
    /\ dEnv = [r \in Renders |-> [suffix |-> "", clock |-> 0]]
    /\ dCaption = [r \in Renders |-> <<>>]
    /\ dSampled = [r \in Renders |-> <<>>]
    /\ dOut = [r \in Renders |-> NoOutput]
    /\ gReq \in [seed : GrainSeeds, fps : {30}, shape : FrameShapes,
                 enabled : BOOLEAN, strength : {0, 500}]
    /\ gDraws = 0
    /\ gSamples = <<>>
    /\ BeatIdle
    /\ WorkIdle
    /\ EndpointIdle
    /\ LateIdle

\* the frame at time t is requested from the styled clip
GrainSampleFrame(t) ==
    /\ Len(gSamples) < MaxSamples
    /\ gSamples' = Append(gSamples,
          [t |-> t, frame_index |-> FrameIndex(t, gReq.fps),
           service |-> ServiceNoise(t), style |-> StyleNoise(t)])
    /\ gDraws' = IF gReq.enabled THEN gDraws + FrameSize(gReq.shape) ELSE gDraws
    /\ UNCHANGED <<composeVars, pipeVars, audioVars, detVars, lateVars, beatVars, workVars,
                   endpointVars, gReq>>

NextGrain == \E t \in SampleTimestamps : GrainSampleFrame(t)

SpecGrain == InitGrain /\ [][NextGrain]_vars

----------------------------------------------------------------------------
(* One call of BeatEngine.align_durations_to_beats *)

\* durations (ms) a scene may request: above 0.25 s
BeatDurations == {300, 1250, 6200}

BeatDurationLists ==
    UNION { [1..n -> BeatDurations] : n \in 0..MaxAlignedScenes }

\* beat sequences (ms): none, one, and intervals below, inside and above
\* [0.3, 2.0] s, with an odd and an even number of intervals
BeatSequences ==
    { <<>>, <<700>>, <<0, 250>>, <<0, 3000>>, <<0, 500, 1300>>,
      <<0, 500, 1000, 1500, 2000>> }

InitBeat ==
    /\ ComposeIdle
    /\ PipeIdle
    /\ AudioIdle
    /\ DetIdle
    /\ GrainIdle
    /\ WorkIdle
    /\ EndpointIdle
    /\ LateIdle
    /\ bDurations \in BeatDurationLists
    /\ bBeatTimes \in BeatSequences
    /\ bAligned = <<>>
    /\ bpc = "call"

AlignCall ==
    /\ bpc = "call"
    /\ bAligned' = AlignDurationsToBeats(bDurations, bBeatTimes)
    /\ bpc' = "returned"
    /\ UNCHANGED <<composeVars, pipeVars, audioVars, detVars, lateVars, grainVars, workVars,
                   endpointVars, bDurations, bBeatTimes>>

NextBeat == AlignCall

SpecBeat == InitBeat /\ [][NextBeat]_vars

----------------------------------------------------------------------------
(* Concurrent renders on one temp_root: StorageService, RenderPipeline.run *)

\* characters create_workdir keeps: ch.isalnum() or ch in {"-", "_"}
KeptCharacters == {"a", "b", "1", "-", "_"}

\* "".join(ch for ch in request_id if ch.isalnum() or ch in {"-", "_"})
SafeId(request_id) ==
    LET keep(ch) == ch \in KeptCharacters
    IN  SelectSeq(request_id, keep)

\* temp_root / f"{safe_id}-{unique}"
WorkdirPath(request_id, unique) == <<SafeId(request_id), unique>>

\* reset_dir on a tree whose directories carry the call that made them: the
\* directory at path is removed if it exists and made anew by call c
ResetDirBy(temp, path, c) ==
    { d \in temp : d.path # path } \cup { [path |-> path, owner |-> c] }

\* shutil.rmtree(workdir, ignore_errors=True)
RmTreeAt(temp, path) == { d \in temp : d.path # path }

Calls == 1..MaxCalls

RequestIds == { <<"a", "1">>, <<"a", "/", "1">>, <<"b">> }

InitWork ==
    /\ ComposeIdle
    /\ PipeIdle
    /\ AudioIdle
    /\ DetIdle
    /\ GrainIdle
    /\ BeatIdle
    /\ wRequestId \in [Calls -> RequestIds]
    /\ wpc = [c \in Calls |-> "start"]
    /\ wWorkdir = [c \in Calls |-> <<>>]
    /\ wTemp = {}
    /\ EndpointIdle
    /\ LateIdle

\* line 39: workdir = self.storage.create_workdir(request.request_id), the
\* suffix being uuid.uuid4().hex[:8]
WorkCreate(c) ==
    /\ wpc[c] = "start"
    /\ \E unique \in WorkdirSuffixes :
          /\ wWorkdir' = [wWorkdir EXCEPT ![c] = WorkdirPath(wRequestId[c], unique)]
          /\ wTemp' = ResetDirBy(wTemp, WorkdirPath(wRequestId[c], unique), c)
    /\ wpc' = [wpc EXCEPT ![c] = "running"]
    /\ UNCHANGED <<composeVars, pipeVars, audioVars, detVars, lateVars, grainVars, beatVars,
                   endpointVars, wRequestId>>

\* line 85: self._cleanup(workdir) after a successful export
WorkCleanup(c) ==
    /\ wpc[c] = "running"
    /\ wTemp' = RmTreeAt(wTemp, wWorkdir[c])
    /\ wpc' = [wpc EXCEPT ![c] = "returned"]
    /\ UNCHANGED <<composeVars, pipeVars, audioVars, detVars, lateVars, grainVars, beatVars,
                   endpointVars, wRequestId, wWorkdir>>

\* a step between lines 42 and 75 raises: run is left without cleanup
WorkRaise(c) ==
    /\ wpc[c] = "running"
    /\ wpc' = [wpc EXCEPT ![c] = "raised"]
    /\ UNCHANGED <<composeVars, pipeVars, audioVars, detVars, lateVars, grainVars, beatVars,
                   endpointVars, wRequestId, wWorkdir, wTemp>>

NextWork ==
    \/ \E c \in Calls : WorkCreate(c)
    \/ \E c \in Calls : WorkCleanup(c)
    \/ \E c \in Calls : WorkRaise(c)

SpecWork == InitWork /\ [][NextWork]_vars

----------------------------------------------------------------------------
(* The render endpoints and the request object they hand to run *)

\* app/api/render_routes.py (the router main.py includes through the app.api
\* package) declares payload: render_contract.RenderRequest; app/api.py
\* declares payload: schemas.RenderRequest
Endpoints == {"api/render_routes.py", "api.py"}

\* the fields of the request class of each endpoint
RequestAttributes(endpoint) ==
    IF endpoint = "api/render_routes.py"
    THEN {"request_id", "seed", "video", "scenes", "audio"}
    ELSE {"request_id", "seed", "width", "height", "fps", "transition_seconds",
          "letterbox_ratio", "apply_film_grain", "scenes", "narration", "music"}

\* the attributes of request that validate and run read, in execution order
\* for a request that passes validation and whose collaborators do not fail
RunReads ==
    << [attr |-> "scenes", step |-> "validate"],
       [attr |-> "audio", step |-> "validate"],
       [attr |-> "audio", step |-> "validate"],
       [attr |-> "scenes", step |-> "validate"],
       [attr |-> "request_id", step |-> "workdir"],
       [attr |-> "request_id", step |-> "workdir"],
       [attr |-> "music", step |-> "beats"],
       [attr |-> "scenes", step |-> "beats"],
       [attr |-> "width", step |-> "compose"],
       [attr |-> "height", step |-> "compose"],
       [attr |-> "scenes", step |-> "compose"],
       [attr |-> "seed", step |-> "compose"],
       [attr |-> "transition_seconds", step |-> "compose"],
       [attr |-> "narration", step |-> "mix"],
       [attr |-> "music", step |-> "mix"],
       [attr |-> "seed", step |-> "style"],
       [attr |-> "letterbox_ratio", step |-> "style"],
       [attr |-> "apply_film_grain", step |-> "style"],
       [attr |-> "fps", step |-> "export"],
       [attr |-> "scenes", step |-> "respond"],
       [attr |-> "request_id", step |-> "respond"],
       [attr |-> "seed", step |-> "respond"] >>

EndpointSeeds == {0, 42}

InitEndpoint ==
    /\ ComposeIdle
    /\ PipeIdle
    /\ AudioIdle
    /\ DetIdle
    /\ GrainIdle
    /\ BeatIdle
    /\ WorkIdle
    /\ LateIdle
    /\ eEndpoint \in Endpoints
    /\ ePayload \in [request_id : RequestIds, seed : EndpointSeeds,
                     scene_count : 1..MaxScenes]
    /\ ePos = 1
    /\ eOutcome = "running"
    /\ eResponse = [status |-> 0, body |-> <<>>]

\* run reads the next attribute of the payload; a class without it raises
\* AttributeError, which render_video turns into HTTP 500 (lines 17-18); after
\* the last read run returns the response (lines 86-94)
RunRead ==
    /\ eOutcome = "running"
    /\ IF ePos > Len(RunReads)
       THEN /\ eOutcome' = "returned"
            /\ eResponse' = [status |-> 200,
                             body |-> <<"success", ePayload.request_id, ePayload.seed,
                                        ePayload.scene_count>>]
            /\ UNCHANGED ePos
       ELSE IF RunReads[ePos].attr \in RequestAttributes(eEndpoint)
       THEN /\ ePos' = ePos + 1
            /\ UNCHANGED <<eOutcome, eResponse>>
       ELSE /\ eOutcome' = "raised"
            /\ eResponse' = [status |-> StatusCode("AttributeError"),
                             body |-> <<"Render failed", RunReads[ePos].attr>>]
            /\ UNCHANGED ePos
    /\ UNCHANGED <<composeVars, pipeVars, audioVars, detVars, lateVars, grainVars, beatVars,
                   workVars, eEndpoint, ePayload>>

NextEndpoint == RunRead

SpecEndpoint == InitEndpoint /\ [][NextEndpoint]_vars

----------------------------------------------------------------------------
(* CameraEffectsService.build_clip and the clip it returns *)

\* int(x) of Python for x = n / d, d > 0: truncation toward zero
TruncDiv(n, d) == IF n >= 0 THEN n \div d ELSE -((-n) \div d)

\* lines 23-24: the early return of a static camera
IsStill(camera) == camera.type # "kenburns" \/ camera.intensity <= 0

\* lines 34 and 38: progress = 0.0 if duration <= 0 else min(1.0, t / duration),
\* as numerator and denominator
Progress(t, duration) ==
    IF duration <= 0 THEN <<0, 1>>
    ELSE IF t >= duration THEN <<1, 1>> ELSE <<t, duration>>

\* line 35: zoom_start + (zoom_end - zoom_start) * progress; a clip that
\* returned at line 24 is not resized
DynamicResize(t) ==
    IF IsStill(camCfg) THEN 1000000
    ELSE LET p == Progress(t, camDuration)
         IN  camParams.zoom_start
               + ((camParams.zoom_end - camParams.zoom_start) * p[1]) \div p[2]

\* lines 39-41: (int(width * pan_x * progress), int(height * pan_y * progress));
\* a clip that returned at line 24 stays centred
DynamicPosition(t) ==
    IF IsStill(camCfg) THEN <<0, 0>>
    ELSE LET p == Progress(t, camDuration)
         IN  << TruncDiv(camSize[1] * camParams.pan_x * p[1], 1000000 * p[2]),
                TruncDiv(camSize[2] * camParams.pan_y * p[1], 1000000 * p[2]) >>

\* CameraConfig: type, and intensity ge 0.0, le 1.0
CameraConfigs == [type : {"static", "kenburns"}, intensity : {0, 500, 1000}]

\* values of random(), in [0, 1)
RandomValues == {0, 500, 999}

\* duration argument: a degenerate clip and a clip of 0.1 s
ClipDurations == {0, 100}

\* times a clip is evaluated at: before, inside, at the end and after the clip
EvaluationTimes == {-50, 0, 50, 100, 200}

InitCamera ==
    /\ ComposeIdle
    /\ PipeIdle
    /\ AudioIdle
    /\ DetIdle
    /\ GrainIdle
    /\ BeatIdle
    /\ WorkIdle
    /\ EndpointIdle
    /\ OutputIdle
    /\ JobsIdle
    /\ camCfg \in CameraConfigs
    /\ camDuration \in ClipDurations
    /\ camSize = <<100, 50>>
    /\ camRandom \in [1..4 -> RandomValues]
    /\ camDrawn = 0
    /\ camParams = NoCameraParams
    /\ camSamples = <<>>
    /\ campc = "call"

\* build_clip lines 22-43
BuildClip ==
    /\ campc = "call"
    /\ camParams' = CameraParamsDrawn(camCfg, camRandom)
    /\ camDrawn' = IF IsStill(camCfg) THEN 0 ELSE 4
    /\ campc' = "built"
    /\ UNCHANGED <<composeVars, pipeVars, audioVars, detVars, sideVars, outputVars, jobVars,
                   camCfg, camDuration, camSize, camRandom, camSamples>>

\* the returned clip is evaluated at time t (lines 33-41)
EvaluateClip(t) ==
    /\ campc = "built"
    /\ Len(camSamples) < MaxEvaluations
    /\ camSamples' = Append(camSamples,
           [t |-> t, zoom |-> DynamicResize(t), position |-> DynamicPosition(t)])
    /\ UNCHANGED <<composeVars, pipeVars, audioVars, detVars, sideVars, outputVars, jobVars,
                   camCfg, camDuration, camSize, camRandom, camDrawn, camParams, campc>>

NextCamera == BuildClip \/ \E t \in EvaluationTimes : EvaluateClip(t)

SpecCamera == InitCamera /\ [][NextCamera]_vars

----------------------------------------------------------------------------
(* Concurrent renders on one output_root: StorageService.output_path, ExportEngine *)

NoPath == <<>>

\* output_root / f"{safe_id}.mp4"
OutputPath(request_id) == <<SafeId(request_id), "mp4">>

\* output_path.parent / f"{output_path.stem}.m4a"
TempAudioFile(output_path) == <<output_path[1], "m4a">>

InitOutput ==
    /\ ComposeIdle
    /\ PipeIdle
    /\ AudioIdle
    /\ DetIdle
    /\ GrainIdle
    /\ BeatIdle
    /\ WorkIdle
    /\ EndpointIdle
    /\ CameraIdle
    /\ JobsIdle
    /\ xRequestId \in [Calls -> RequestIds]
    /\ xpc = [c \in Calls |-> "start"]
    /\ xOutput = [c \in Calls |-> NoPath]
    /\ xOpen = {}

\* RenderPipeline.run line 40: output_path = self.storage.output_path(request_id)
ComputeOutputPath(c) ==
    /\ xpc[c] = "start"
    /\ xOutput' = [xOutput EXCEPT ![c] = OutputPath(xRequestId[c])]
    /\ xpc' = [xpc EXCEPT ![c] = "rendering"]
    /\ UNCHANGED <<composeVars, pipeVars, audioVars, detVars, sideVars, cameraVars, jobVars,
                   xRequestId, xOpen>>

\* ExportEngine.export lines 15-27: write_videofile opens the output file and
\* the temp audio file next to it
WriteBegin(c) ==
    /\ xpc[c] = "rendering"
    /\ xOpen' = xOpen \cup { [path |-> xOutput[c], writer |-> c],
                             [path |-> TempAudioFile(xOutput[c]), writer |-> c] }
    /\ xpc' = [xpc EXCEPT ![c] = "writing"]
    /\ UNCHANGED <<composeVars, pipeVars, audioVars, detVars, sideVars, cameraVars, jobVars,
                   xRequestId, xOutput>>

\* write_videofile returns or raises: its files are closed
WriteEnd(c) ==
    /\ xpc[c] = "writing"
    /\ xOpen' = { f \in xOpen : f.writer # c }
    /\ xpc' = [xpc EXCEPT ![c] = "done"]
    /\ UNCHANGED <<composeVars, pipeVars, audioVars, detVars, sideVars, cameraVars, jobVars,
                   xRequestId, xOutput>>

NextOutput == \E c \in Calls : ComputeOutputPath(c) \/ WriteBegin(c) \/ WriteEnd(c)

SpecOutput == InitOutput /\ [][NextOutput]_vars

----------------------------------------------------------------------------
(* The job registry of the UI: generate_video, _run_generation, generation_status *)

Jobs == 1..MaxJobs

\* uuid.uuid4().hex[:12]: the values the draw can return
JobIds == {"0a1b2c3d4e5f", "6a7b8c9d0e1f"}

\* _REQUESTS.get(request_id) is None
NoEntry == [status |-> "none", progress |-> 0, video_url |-> ""]

\* lines 80-84: the entry generate_video inserts
AcceptedEntry == [status |-> "processing", progress |-> 5, video_url |-> ""]

\* progress of the _update_status calls at lines 106, 109, 113 and 148
StageProgress == <<10, 35, 50, 70>>

\* _update_status lines 312-321: setdefault, then the fields that are given
UpdateStatus(registry, id, status, progress, video_url) ==
    LET current == IF registry[id] = NoEntry
                   THEN [status |-> "", progress |-> 0, video_url |-> ""]
                   ELSE registry[id]
    IN  [registry EXCEPT ![id] =
            [status |-> IF status # "" THEN status ELSE current.status,
             progress |-> progress,
             video_url |-> IF video_url # "" THEN video_url ELSE current.video_url]]

IdleReader == [pc |-> "idle", id |-> "", held |-> NoEntry, returned |-> NoEntry]

InitJobs ==
    /\ ComposeIdle
    /\ PipeIdle
    /\ AudioIdle
    /\ DetIdle
    /\ GrainIdle
    /\ BeatIdle
    /\ WorkIdle
    /\ EndpointIdle
    /\ CameraIdle
    /\ OutputIdle
    /\ jId = [r \in Jobs |-> ""]
    /\ jpc = [r \in Jobs |-> "new"]
    /\ jRegistry = [id \in JobIds |-> NoEntry]
    /\ jWritten = [r \in Jobs |-> <<>>]
    /\ jReader = IdleReader

\* generate_video lines 78-88: draw the id, insert the entry, start the worker
GenerateVideo(r) ==
    /\ jpc[r] = "new"
    /\ \E id \in JobIds :
          /\ jId' = [jId EXCEPT ![r] = id]
          /\ jRegistry' = [jRegistry EXCEPT ![id] = AcceptedEntry]
    /\ jWritten' = [jWritten EXCEPT ![r] = <<AcceptedEntry.progress>>]
    /\ jpc' = [jpc EXCEPT ![r] = "spawned"]
    /\ UNCHANGED <<composeVars, pipeVars, audioVars, detVars, sideVars, cameraVars,
                   outputVars, jReader>>

\* _run_generation lines 101-103, before the try: get_settings and mkdir
\* return, or one of them raises and the thread ends
WorkerSetup(r) ==
    /\ jpc[r] = "spawned"
    /\ \E next \in {"stage1", "dead"} : jpc' = [jpc EXCEPT ![r] = next]
    /\ UNCHANGED <<composeVars, pipeVars, audioVars, detVars, sideVars, cameraVars,
                   outputVars, jId, jRegistry, jWritten, jReader>>

\* position after stage k returned
AfterStage(k) ==
    IF k = 1 THEN "stage2" ELSE IF k = 2 THEN "stage3" ELSE IF k = 3 THEN "stage4" ELSE "finishing"

\* lines 106-149: the _update_status call of stage k, then the work of the
\* stage (scenes, narration, assets and request, render) returns or raises
WorkerStage(r, k) ==
    /\ jpc[r] = <<"stage1", "stage2", "stage3", "stage4">>[k]
    /\ jRegistry' = UpdateStatus(jRegistry, jId[r], "", StageProgress[k], "")
    /\ jWritten' = [jWritten EXCEPT ![r] = Append(@, StageProgress[k])]
    /\ \E next \in {AfterStage(k), "except"} : jpc' = [jpc EXCEPT ![r] = next]
    /\ UNCHANGED <<composeVars, pipeVars, audioVars, detVars, sideVars, cameraVars,
                   outputVars, jId, jReader>>

\* lines 150-158
WorkerComplete(r) ==
    /\ jpc[r] = "finishing"
    /\ jRegistry' = UpdateStatus(jRegistry, jId[r], "completed", 100, "/videos/" \o jId[r])
    /\ jWritten' = [jWritten EXCEPT ![r] = Append(@, 100)]
    /\ jpc' = [jpc EXCEPT ![r] = "ended"]
    /\ UNCHANGED <<composeVars, pipeVars, audioVars, detVars, sideVars, cameraVars,
                   outputVars, jId, jReader>>

\* lines 159-160
WorkerFail(r) ==
    /\ jpc[r] = "except"
    /\ jRegistry' = UpdateStatus(jRegistry, jId[r], "failed", 100, "")
    /\ jWritten' = [jWritten EXCEPT ![r] = Append(@, 100)]
    /\ jpc' = [jpc EXCEPT ![r] = "ended"]
    /\ UNCHANGED <<composeVars, pipeVars, audioVars, detVars, sideVars, cameraVars,
                   outputVars, jId, jReader>>

\* generation_status lines 93-94: under the lock, get the entry of the id; the
\* reader holds the dict of the registry, not a copy
StatusLookup(id) ==
    /\ jReader.pc = "idle"
    /\ jReader' = [pc |-> "holding", id |-> id, held |-> jRegistry[id], returned |-> NoEntry]
    /\ UNCHANGED <<composeVars, pipeVars, audioVars, detVars, sideVars, cameraVars,
                   outputVars, jId, jpc, jRegistry, jWritten>>

\* lines 95-97, after the lock is released: 404, or the dict is returned and
\* read as it is then
StatusReturn ==
    /\ jReader.pc = "holding"
    /\ jReader' = [jReader EXCEPT !.pc = "returned",
                                  !.returned = IF jReader.held = NoEntry THEN NoEntry
                                               ELSE jRegistry[jReader.id]]
    /\ UNCHANGED <<composeVars, pipeVars, audioVars, detVars, sideVars, cameraVars,
                   outputVars, jId, jpc, jRegistry, jWritten>>

Worker(r) ==
    \/ WorkerSetup(r)
    \/ \E k \in 1..4 : WorkerStage(r, k)
    \/ WorkerComplete(r)
    \/ WorkerFail(r)

NextJobs ==
    \/ \E r \in Jobs : GenerateVideo(r) \/ Worker(r)
    \/ \E id \in JobIds : StatusLookup(id)
    \/ StatusReturn

SpecJobs == InitJobs /\ [][NextJobs]_vars

\* a started thread keeps being scheduled and each of its steps returns or raises
SpecJobsFair == SpecJobs /\ \A r \in Jobs : WF_vars(Worker(r))

----------------------------------------------------------------------------
(* C1: timeline additivity *)

\* o_i of the claim: min(transition_i.duration, 0.8 * d_i) for a positive crossfade
Overlap(i) ==
    IF IsCrossfade(scenes[i].transition)
    THEN Min(scenes[i].transition.duration, FourFifths(clips[i]))
    ELSE 0

\* C1: when compose has returned, the total duration of the timeline is
\* sum(d_i) minus the sum over i = 2..N of the capped crossfade overlaps o_i.
C1_TimelineAdditivity ==
    cpc = "done" =>
        total_duration = SeqSum(clips) - SeqSum([k \in 1..(Len(clips) - 1) |-> Overlap(k + 1)])

----------------------------------------------------------------------------
(* C2: guaranteed cleanup of the working directory *)

RunEnded == rpc \in {"returned", "raised"}

\* C2: once run has created the working directory, the directory no longer
\* exists when run has returned or raised, whatever the exit path.
C2_WorkdirRemovedOnExit ==
    (RunEnded /\ workdir # <<>>) => workdir \notin tmpDirs

----------------------------------------------------------------------------
(* C3: fail-fast validation *)

ValidationReasons ==
    { "Scene image not found", "Music track not found", "Narration track not found",
      "Scene count exceeds limit", "Timeline duration exceeds limit" }

FailedValidation == rpc = "raised" /\ error.reason \in ValidationReasons

\* C3: when run fails on a validation condition (a media path that is not a
\* regular file, too many scenes, too long a timeline), no scene clip has been
\* built, no audio mixed, no styling applied and no export started.
C3_FailFastValidation ==
    FailedValidation =>
        /\ built = <<>>
        /\ ~mixed
        /\ ~styled
        /\ ~export_started
        /\ outputFile = "absent"

\* the latest validation failure: the duration limit, after beats were aligned
C3_Witness ==
    /\ rpc = "raised"
    /\ error.reason = "Timeline duration exceeds limit"
    /\ Len(beat_times) >= 2
    /\ aligned_durations # RequestedDurations(req)

----------------------------------------------------------------------------
(* C4: global limits hold for every render that reaches composition *)

Composing == rpc = "build" \/ built # <<>>

\* C4: whenever run builds scene clips, the scene count is at most
\* settings.max_scenes and the sum of the scene durations (beat-aligned when
\* at least two beats were detected) is at most
\* settings.max_total_duration_seconds; a request with more scenes than
\* max_scenes ends rejected.
C4_GlobalLimits ==
    /\ Composing =>
          /\ Len(req.scenes) <= settings.max_scenes
          /\ aligned_durations = AlignDurationsToBeats(RequestedDurations(req), beat_times)
          /\ SeqSum(aligned_durations) <= settings.max_total_duration_seconds
    /\ (RunEnded /\ Len(req.scenes) > settings.max_scenes) =>
          rpc = "raised" /\ error.type = "ValueError" /\ built = <<>>

\* composition of a request at the limit whose durations were moved by the beats
C4_Witness ==
    /\ built # <<>>
    /\ Len(req.scenes) = settings.max_scenes
    /\ aligned_durations # RequestedDurations(req)
    /\ settings.max_total_duration_seconds = 1000

----------------------------------------------------------------------------
(* C6: MediaValidationService.validate *)

Validated == rpc \notin {"idle", "construct", "rejected", "validate"}

BadImages == { k \in 1..Len(req.scenes) : fs[req.scenes[k].image_path] # "file" }

BadTrack(t) == t.present /\ fs[t.path] # "file"

NotFoundReasons ==
    {"Scene image not found", "Music track not found", "Narration track not found"}

C6_Outcome ==
    Validated =>
        /\ BadImages # {} =>
              /\ rpc = "raised"
              /\ error = ValueError("Scene image not found",
                     req.scenes[CHOOSE k \in BadImages : \A j \in BadImages : k <= j].image_path)
        /\ (BadImages = {} /\ BadTrack(req.music)) =>
              rpc = "raised" /\ error = ValueError("Music track not found", req.music.path)
        /\ (BadImages = {} /\ ~BadTrack(req.music) /\ BadTrack(req.narration)) =>
              rpc = "raised"
              /\ error = ValueError("Narration track not found", req.narration.path)
        /\ (BadImages = {} /\ ~BadTrack(req.music) /\ ~BadTrack(req.narration)) =>
              error.reason \notin NotFoundReasons

\* C6: validate rejects every request with a scene image that is not a regular
\* file, naming the image path of the first such scene; images are checked
\* before music and music before narration; when every path is a regular file
\* validate raises nothing; and validate changes nothing but the control state.
C6_ValidateRejects ==
    /\ []C6_Outcome
    /\ [][rpc = "validate" =>
            UNCHANGED <<settings, fs, payload, req, workdir, tmpDirs, beat_times,
                        aligned_durations, built, video_duration, mixed, styled,
                        export_started, outputFile, response>>]_vars

\* two scenes with different bad images, the second path first, and a bad track
C6_Witness ==
    /\ rpc = "raised"
    /\ Len(req.scenes) = 2
    /\ BadImages = {1, 2}
    /\ req.scenes[1].image_path = "img2.png"
    /\ req.scenes[2].image_path = "img1.png"
    /\ BadTrack(req.music)
    /\ error.path = "img2.png"
----------------------------------------------------------------------------
(* C5: a request without any audio track *)

NoAudio == ~aCfg.narration.present /\ ~aCfg.music.present

MixEnded == apc \in {"normalize", "mixed", "raised"}

\* C5: a request with neither narration nor music is rejected when the request
\* is constructed (nested and flat contract alike), and a mixer that is handed
\* such a configuration raises instead of producing a mix.
C5_NoAudioRejected ==
    NoAudio =>
        /\ aAccepted \in {"pending", "rejected"}
        /\ MixEnded =>
              /\ apc = "raised"
              /\ aError = "ValueError: No audio clips available for mix"
              /\ aBuffer = <<>>
              /\ aPeaks = <<>>

\* AudioMixerService.mix called directly without tracks
C5_Witness ==
    /\ NoAudio
    /\ aContract = "nested"
    /\ aT > 0
    /\ apc = "raised"

----------------------------------------------------------------------------
(* C7, C8: peak normalization *)

Normalized == aPeaks # <<>> /\ aBuffer # <<>>

LastPeak == aPeaks[Len(aPeaks)]

LastGain == aClip.gains[Len(aClip.gains)]

HalfTarget == <<460, 1>>

Target == <<920, 1>>

\* C8: for a buffer with measured peak p > 0 the gain is at most 2 and the
\* resulting peak is at most 0.92: it is 0.92 when p >= 0.46 and 2p otherwise;
\* a buffer with peak 0 is returned unchanged.
C8_NormalizationBounds ==
    Normalized =>
        IF LastPeak[1] = 0
        THEN aClip = [samples |-> aBuffer, gains |-> <<>>]
        ELSE /\ Len(aClip.gains) = Len(aPeaks)
             /\ RatLeq(LastGain, <<2, 1>>)
             /\ RatLeq(SoundArrayPeak(aClip), Target)
             /\ RatLeq(HalfTarget, LastPeak) => SoundArrayPeak(aClip) = Target
             /\ ~RatLeq(HalfTarget, LastPeak) =>
                   SoundArrayPeak(aClip) = RatMul(<<2, 1>>, LastPeak)

\* a quiet mix, where the cap of 2 decides the gain
C8_Witness ==
    /\ Normalized
    /\ Len(aPeaks) = 1
    /\ LastPeak[1] > 0
    /\ ~RatLeq(HalfTarget, LastPeak)
    /\ LastGain = <<2, 1>>

TwoPasses == Normalized /\ Len(aPeaks) = 2 /\ aPeaks[1][1] > 0

\* C7 as stated: for every buffer with peak > 0, quiet ones included, a second
\* _normalize pass leaves the peak unchanged.
C7_NormalizeIdempotent ==
    TwoPasses => SoundArrayPeak(aClip) = aPeaks[2]

\* C7 as amended: for a buffer with peak >= 0.46 the second pass applies gain 1
\* and leaves the peak at 0.92; for a buffer with 0 < peak < 0.46 the first
\* pass is capped at gain 2 and the second pass raises the peak again, to
\* min(4 * peak, 0.92).
C7_NormalizeIdempotentAboveHalfTarget ==
    TwoPasses =>
        /\ RatLeq(HalfTarget, aPeaks[1]) =>
              /\ aClip.gains[2] = <<1, 1>>
              /\ aPeaks[2] = Target
              /\ SoundArrayPeak(aClip) = aPeaks[2]
        /\ ~RatLeq(HalfTarget, aPeaks[1]) =>
              /\ aPeaks[2] = RatMul(<<2, 1>>, aPeaks[1])
              /\ SoundArrayPeak(aClip) = RatMin(RatMul(<<4, 1>>, aPeaks[1]), Target)
              /\ SoundArrayPeak(aClip) # aPeaks[2]

\* a loud mix normalized twice
C7_Witness ==
    /\ TwoPasses
    /\ RatLeq(Target, aPeaks[1])
    /\ aPeaks[1] # Target
    /\ aClip.gains[2] = <<1, 1>>

----------------------------------------------------------------------------
(* C9: bounds of the ducking envelope *)

\* playback times at which the music gain is looked up (ms)
PlaybackTimes == 0..(aT + 100)

\* C9: every value of the envelope is 0.45 or 1.0 and so within [0.35, 1.0],
\* the envelope has max(1, floor(25 * timeline_seconds)) entries, and the index
\* used for any playback time t >= 0 falls inside the envelope.
C9_DuckingBounds ==
    aEnvelope # <<>> =>
        /\ \A i \in 1..Len(aEnvelope) :
              aEnvelope[i] \in {450, 1000} /\ aEnvelope[i] >= 350 /\ aEnvelope[i] <= 1000
        /\ Len(aEnvelope) = IF 25 * aT >= 1000 THEN (25 * aT) \div 1000 ELSE 1
        /\ \A t \in PlaybackTimes :
              LET idx == EnvelopeIndex(Len(aEnvelope), t)
              IN  idx >= 0 /\ idx <= Len(aEnvelope) - 1
                  /\ aEnvelope[idx + 1] >= 350 /\ aEnvelope[idx + 1] <= 1000

\* an envelope with a ducked and an unducked window
C9_Witness ==
    /\ Len(aEnvelope) = 2
    /\ aEnvelope[1] = 450
    /\ aEnvelope[2] = 1000
----------------------------------------------------------------------------
(* C10: determinism of the derived values *)

ComposedStates == {"composed", "mixed"}

----------------------------------------------------------------------------
(* C11: RNG independence *)

\* C11: when two requests differ only in the caption of one scene, every scene
\* has the same camera parameters in both, and within a render two scenes with
\* the same sub-seed and the same camera have the same parameters.
C11_RngIndependence ==
    /\ (dpc[1] \in ComposedStates /\ dpc[2] \in ComposedStates) =>
          dOut[1].cameras = dOut[2].cameras
    /\ \A r \in Renders : \A i \in 1..Len(dOut[r].cameras) :
          \A j \in 1..Len(dOut[r].cameras) :
             dOut[r].subseeds[i] = dOut[r].subseeds[j] =>
                dOut[r].cameras[i] = dOut[r].cameras[j]

\* both requests composed, one with a caption the other lacks, the cameras
\* moving and the two scenes drawing from different streams
C11_Witness ==
    /\ dpc[1] \in ComposedStates /\ dpc[2] \in ComposedStates
    /\ dCaption[1][1] # NoCaption /\ dCaption[2][1] = NoCaption
    /\ dOut[1].overlays # dOut[2].overlays
    /\ dReq.camera.type = "kenburns"
    /\ dOut[1].cameras[1] # dOut[1].cameras[2]
    /\ dOut[1].cameras[1].zoom_end > dOut[1].cameras[1].zoom_start
----------------------------------------------------------------------------
(* C12: grain determinism *)

\* C12: two samples of the same frame index get the same noise from the grain
\* service and from the style engine, whatever was sampled in between, and two
\* samples of different frame indices get different grain generator seeds.
C12_GrainDeterminism ==
    \A i \in 1..Len(gSamples) : \A j \in 1..Len(gSamples) :
       /\ gSamples[i].frame_index = gSamples[j].frame_index =>
             /\ gSamples[i].service = gSamples[j].service
             /\ gSamples[i].style = gSamples[j].style
       /\ (gSamples[i].frame_index # gSamples[j].frame_index
              /\ gSamples[i].service # NoNoise) =>
             gSamples[i].service.rng # gSamples[j].service.rng
----------------------------------------------------------------------------
(* C13: beat alignment result *)

\* twice the median inter-beat interval, clamped to [0.3, 2.0] s
ClampedUnit2 ==
    LET intervals == [k \in 1..(Len(bBeatTimes) - 1) |-> bBeatTimes[k + 1] - bBeatTimes[k]]
    IN  Max(600, Min(4000, Median2(intervals)))

\* n is round(d / unit): the integer nearest to d / unit, the even one on a tie
IsRounded(n, d, unit2) ==
    /\ 2 * Abs(2 * d - n * unit2) <= unit2
    /\ 2 * Abs(2 * d - n * unit2) = unit2 => n % 2 = 0

\* a is max(0.5, round3(max(1, round(d / unit)) * unit))
IsAligned(a, d, unit2) ==
    \E n \in 0..((2 * d) \div unit2 + 1) :
       /\ IsRounded(n, d, unit2)
       /\ \E x \in {(Max(1, n) * unit2) \div 2, (Max(1, n) * unit2) \div 2 + 1} :
             /\ IsRounded(x, Max(1, n) * unit2, 4)
             /\ a = Max(500, x)

BeatAligned ==
    bpc = "returned" =>
       /\ Len(bAligned) = Len(bDurations)
       /\ Len(bBeatTimes) < 2 => bAligned = bDurations
       /\ Len(bBeatTimes) >= 2 =>
             \A k \in 1..Len(bDurations) : IsAligned(bAligned[k], bDurations[k], ClampedUnit2)

\* C13 as stated: the result is the per-duration formula with at least 2
\* beats and the input with fewer, it has the length of the input, and every
\* returned duration is at least 0.5 s.
C13_BeatAlignment ==
    /\ BeatAligned
    /\ bpc = "returned" => \A k \in 1..Len(bAligned) : bAligned[k] >= 500

\* C13 amended: the 0.5 s minimum holds for the durations aligned with at
\* least 2 beats; with fewer the input is returned as it is.
C13_BeatAlignmentWithBeats ==
    /\ BeatAligned
    /\ (bpc = "returned" /\ Len(bBeatTimes) >= 2) =>
          \A k \in 1..Len(bAligned) : bAligned[k] >= 500

\* beats every 0.5 s turn 6.2 s into 6.0 s and, by the tie towards the even
\* count, 1.25 s into 1.0 s
C13_Witness ==
    /\ bpc = "returned"
    /\ bBeatTimes = <<0, 500, 1000, 1500, 2000>>
    /\ bDurations = <<6200, 1250>>
    /\ bAligned = <<6000, 1000>>
----------------------------------------------------------------------------
(* C14: working directories of concurrent renders *)

\* C14: two calls that are running have different working directories, and
\* the working directory of a running call exists as that call made it: no
\* other call has removed it or made it anew.
C14_WorkdirsNeverCollide ==
    \A c \in DOMAIN wpc : wpc[c] = "running" =>
       /\ [path |-> wWorkdir[c], owner |-> c] \in wTemp
       /\ \A o \in DOMAIN wpc : (o # c /\ wpc[o] = "running") => wWorkdir[o] # wWorkdir[c]
----------------------------------------------------------------------------
(* C15: no partial output *)

\* C15: once run has returned or raised, the file at the output path is not a
\* partially written one.
C15_NoPartialOutput ==
    rpc \in {"raised", "returned"} => outputFile # "partial"
----------------------------------------------------------------------------
(* C16: error classification *)

\* the exceptions the mixers raise are ValueErrors
MixErrorType == IF aError = "" THEN "none" ELSE "ValueError"

NoClipsAtMix == apc = "raised" /\ aError = "ValueError: No audio clips available for mix"

----------------------------------------------------------------------------
(* C17: success response *)

\* C17: a request accepted by the render endpoint that passes validation and
\* whose collaborators do not fail is never answered with a failure: run does
\* not raise, and when it has returned the answer is the success response
\* with the request's own request_id and seed and its number of scenes.
C17_SuccessResponse ==
    eEndpoint = "api/render_routes.py" =>
       /\ eOutcome # "raised"
       /\ eOutcome = "returned" =>
             eResponse = [status |-> 200,
                          body |-> <<"success", ePayload.request_id, ePayload.seed,
                                     ePayload.scene_count>>]
----------------------------------------------------------------------------
(* C18: overlap equals fade *)

\* C18: for every placed clip after the first, the pull-back made before it
\* equals its own fade-in, min(transition.duration, 0.8 * its duration) for a
\* crossfade and 0 otherwise, so that it starts exactly that long before the
\* previous clip ends.
C18_OverlapEqualsFade ==
    \A k \in 2..Len(started) :
       /\ pulls[k - 1] = started[k].fade
       /\ started[k].fade =
             IF IsCrossfade(scenes[k].transition)
             THEN Min(scenes[k].transition.duration, FourFifths(started[k].duration))
             ELSE 0
       /\ started[k].start = started[k - 1].start + started[k - 1].duration - started[k].fade
----------------------------------------------------------------------------
(* C19: shape of the timeline *)

\* item.start + item.duration of a placed clip
ClipEnd(k) == started[k].start + started[k].duration

\* C19: at every point of compose the first placed clip starts at 0 and each
\* later clip starts no earlier than the previous clip and no later than the
\* previous clip's end; when compose has returned, every clip's end that is
\* before the total duration lies inside another clip, so the clips cover
\* [0, total_duration] without a gap.
C19_TimelineShape ==
    /\ started # <<>> => started[1].start = 0
    /\ \A k \in 1..(Len(started) - 1) :
          /\ started[k].start <= started[k + 1].start
          /\ started[k + 1].start <= ClipEnd(k)
    /\ cpc = "done" =>
          /\ \E k \in 1..Len(started) : ClipEnd(k) = total_duration
          /\ \A k \in 1..Len(started) :
                ClipEnd(k) < total_duration =>
                    \E j \in 1..Len(started) : started[j].start <= ClipEnd(k) /\ ClipEnd(k) < ClipEnd(j)

\* compose has returned a three-clip timeline in which the cap of a crossfade
\* was binding and a clip ends before the clip placed ahead of it
C19_Witness ==
    /\ cpc = "done"
    /\ Len(started) = MaxClips
    /\ \E k \in 1..(Len(started) - 1) :
          /\ pulls[k] > 0
          /\ pulls[k] < scenes[k + 1].transition.duration
    /\ \E k \in 1..(Len(started) - 1) : ClipEnd(k + 1) < ClipEnd(k)
----------------------------------------------------------------------------
(* C20: the ducking rule *)

\* the signal _build_ducking_envelope analyses: the volume-scaled narration
DuckedNarrationLevel == Level(Volumex(aNarr, aCfg.narration.volume))

\* level[idx] of envelope window i (1-based), in thousandths
WindowLevel(i) ==
    DuckedNarrationLevel[Min(Len(DuckedNarrationLevel) - 1, (i - 1) * Window) + 1]

\* C20: once the ducking envelope is built, the gain of each window is 0.45
\* exactly when the narration level of the window is at or above the 60th
\* percentile of the level envelope, and 1.0 otherwise.
C20_DuckingRule ==
    aEnvelope # <<>> =>
        \A i \in 1..Len(aEnvelope) :
            aEnvelope[i] = IF 5 * WindowLevel(i) >= Percentile60x5(DuckedNarrationLevel)
                           THEN 450 ELSE 1000

\* C20 (amended): the gain of a window is 0.45 exactly when the narration level
\* of the window is at or above the 60th percentile and at or above 0.01, and
\* 1.0 otherwise; a narration that never reaches 0.01 leaves the music unducked.
C20_DuckingRuleWithFloor ==
    aEnvelope # <<>> =>
        /\ Len(aEnvelope) = EnvelopeSize(aT)
        /\ \A i \in 1..Len(aEnvelope) :
              /\ aEnvelope[i] \in {450, 1000}
              /\ aEnvelope[i] = 450 <=>
                    /\ 5 * WindowLevel(i) >= Percentile60x5(DuckedNarrationLevel)
                    /\ WindowLevel(i) >= 10

\* an envelope with a ducked and an unducked window has been built
C20_Witness ==
    /\ aEnvelope # <<>>
    /\ \E i \in 1..Len(aEnvelope) : aEnvelope[i] = 450
    /\ \E i \in 1..Len(aEnvelope) : aEnvelope[i] = 1000
----------------------------------------------------------------------------
(* C21: camera zoom bounds *)

\* C21: a kenburns clip of intensity I > 0 has 1 <= zoom_start <= 1 + 0.03 I and
\* zoom_start + 0.05 I <= zoom_end <= zoom_start + 0.16 I, and at every time it
\* is evaluated at its zoom lies in [zoom_start, zoom_end] and its offset within
\* (0.07 I width, 0.05 I height); a static clip or intensity <= 0 has zoom 1,
\* no offset and draws nothing.
C21_CameraZoomBounds ==
    campc = "built" =>
        IF IsStill(camCfg)
        THEN /\ camDrawn = 0
             /\ \A k \in 1..Len(camSamples) :
                   camSamples[k].zoom = 1000000 /\ camSamples[k].position = <<0, 0>>
        ELSE /\ 1000000 <= camParams.zoom_start
             /\ camParams.zoom_start <= 1000000 + 30 * camCfg.intensity
             /\ camParams.zoom_start + 50 * camCfg.intensity <= camParams.zoom_end
             /\ camParams.zoom_end <= camParams.zoom_start + 160 * camCfg.intensity
             /\ \A k \in 1..Len(camSamples) :
                   /\ camParams.zoom_start <= camSamples[k].zoom
                   /\ camSamples[k].zoom <= camParams.zoom_end
                   /\ Abs(camSamples[k].position[1]) * 1000000 <= 70 * camCfg.intensity * camSize[1]
                   /\ Abs(camSamples[k].position[2]) * 1000000 <= 50 * camCfg.intensity * camSize[2]
----------------------------------------------------------------------------
(* C22: beat quantization *)

\* a is a whole positive number of beat units, rounded to 3 decimals
IsWholeBeats(a, unit2) ==
    \E n \in 1..((2 * a) \div unit2 + 1) : IsRounded(a, n * unit2, 4)

\* C22: with at least 2 beats, every returned duration is a whole positive
\* multiple of the beat unit, up to the rounding to 3 decimals.
C22_BeatQuantization ==
    (bpc = "returned" /\ Len(bBeatTimes) >= 2) =>
        \A k \in 1..Len(bAligned) : IsWholeBeats(bAligned[k], ClampedUnit2)

\* C22 amended: with at least 2 beats, every returned duration is a whole
\* positive multiple of the beat unit, or it is the 0.5 s minimum that replaces
\* a single beat unit shorter than 0.5 s.
C22_BeatQuantizationOrMinimum ==
    (bpc = "returned" /\ Len(bBeatTimes) >= 2) =>
        \A k \in 1..Len(bAligned) :
            \/ IsWholeBeats(bAligned[k], ClampedUnit2)
            \/ /\ bAligned[k] = 500
               /\ ClampedUnit2 < 1000
               /\ IsRounded(1, bDurations[k], ClampedUnit2)

\* a beat unit of 0.3 s turns 0.3 s into the 0.5 s minimum and 1.25 s into
\* four beats
C22_Witness ==
    /\ bpc = "returned"
    /\ bBeatTimes = <<0, 250>>
    /\ bDurations = <<300, 1250>>
    /\ bAligned = <<500, 1200>>
----------------------------------------------------------------------------
(* C23: the timeline of the legacy crossfade *)

\* run is past the concatenation of the scene clips
Concatenated == rpc \in {"mix", "style", "export", "exporting", "finish", "returned"}

\* C23: once the clips are concatenated, every clip starts at a time >= 0 that
\* is not earlier than the previous clip's start, the video duration is
\* sum(d_i) - (N - 1) * transition_seconds and is positive, and it is the
\* timeline_seconds of the response.
C23_LegacyTimelineWellFormed ==
    /\ Concatenated =>
          LET starts == ConcatStarts(built, req.transition_seconds) IN
          /\ \A i \in 1..Len(starts) : starts[i] >= 0
          /\ \A i \in 2..Len(starts) : starts[i] >= starts[i - 1]
          /\ video_duration = SeqSum(built) - (Len(built) - 1) * req.transition_seconds
          /\ video_duration > 0
    /\ rpc = "returned" => response.timeline_seconds = video_duration
----------------------------------------------------------------------------
(* C24: output files of different renders *)

\* C24: two renders with different request ids have different output paths,
\* and no file is open for writing by two renders at once.
C24_OutputsNeverCollide ==
    /\ \A c1, c2 \in DOMAIN xpc :
          (/\ xpc[c1] # "start"
           /\ xpc[c2] # "start"
           /\ xRequestId[c1] # xRequestId[c2]) => xOutput[c1] # xOutput[c2]
    /\ \A f, g \in xOpen : f.path = g.path => f.writer = g.writer
----------------------------------------------------------------------------
(* C25: the job registry reaches a terminal state *)

Terminal(entry) == entry.status \in {"completed", "failed"}

\* the registry entry under the id of request r
EntryOf(r) == IF jId[r] \in JobIds THEN jRegistry[jId[r]] ELSE NoEntry

\* the entry of an accepted request is well formed
JobEntryShape ==
    \A r \in Jobs : jpc[r] # "new" =>
        LET entry == EntryOf(r) IN
        /\ entry.status \in {"processing", "completed", "failed"}
        /\ Terminal(entry) => entry.progress = 100
        /\ entry.status = "completed" => entry.video_url # ""

\* generate_video inserts the entry of the request with status "processing"
InsertedAsProcessing ==
    [][\A r \in Jobs : (jpc[r] = "new" /\ jpc'[r] = "spawned") =>
          jRegistry'[jId'[r]] = AcceptedEntry]_vars

\* progress values written for one request never decrease
ProgressMonotone ==
    \A r \in Jobs : \A k \in 1..(Len(jWritten[r]) - 1) : jWritten[r][k] <= jWritten[r][k + 1]

\* a terminal entry is never changed again
TerminalStable ==
    [][\A id \in JobIds : Terminal(jRegistry[id]) => jRegistry'[id] = jRegistry[id]]_vars

\* an update of one request id leaves the entries of the other ids alone
UpdatesAreLocal ==
    [][\A r \in Jobs : (jpc[r] # "new" /\ jWritten'[r] # jWritten[r]) =>
          \A id \in JobIds \ {jId[r]} : jRegistry'[id] = jRegistry[id]]_vars

\* every accepted request eventually has a terminal entry
EventuallyTerminal ==
    \A r \in Jobs : (jpc[r] = "spawned") ~> Terminal(EntryOf(r))

\* C25: an accepted request is inserted as "processing" and its entry
\* eventually is "completed" (video_url, progress 100) or "failed" (progress
\* 100) whatever step of the worker fails; progress written for a request
\* never decreases, a terminal entry never changes, and updates of one
\* request id never alter another's entry.
C25_JobReachesTerminal ==
    /\ [](JobEntryShape /\ ProgressMonotone)
    /\ InsertedAsProcessing
    /\ TerminalStable
    /\ UpdatesAreLocal
    /\ EventuallyTerminal

====
